---- MODULE Spec2Model ----
(***************************************************************************)
(* Model of media_adapter's session and cookie core:                       *)
(*   utils/browser_session.py  BrowserSessionManager                       *)
(*   utils/cookie_manager.py   CookieManager                               *)
(* Strings are sequences of one-character strings, a cookie file is the    *)
(* sequence of characters it holds (NoFile when it does not exist).        *)
(***************************************************************************)
EXTENDS Integers, Sequences, FiniteSets, TLC

\* ------------------------------------------------------------------ bounds
\* Number of browsers the manager launches in one run.
MaxLaunch == 2

\* ------------------------------------------------------------- strings
NL == "\n"
Whitespace == {" ", NL}

RECURSIVE LStrip(_)
LStrip(s) == IF s # <<>> /\ Head(s) \in Whitespace THEN LStrip(Tail(s)) ELSE s

RECURSIVE RStrip(_)
RStrip(s) ==
    IF s # <<>> /\ s[Len(s)] \in Whitespace
    THEN RStrip(SubSeq(s, 1, Len(s) - 1)) ELSE s

\* str.strip()
Strip(s) == RStrip(LStrip(s))

\* "c" in s
HasChar(s, c) == \E i \in 1..Len(s) : s[i] = c

\* Mutant: no line is taken for a comment.
IsComment_never(s) == FALSE

\* s.startswith("#")
IsComment(s) == s # <<>> /\ Head(s) = "#"

\* The lines a text file yields when iterated, line terminators removed.
RECURSIVE SplitLines(_)
SplitLines(content) ==
    IF content = <<>> THEN <<>>
    ELSE LET nl == {i \in 1..Len(content) : content[i] = NL}
         IN  IF nl = {} THEN <<content>>
             ELSE LET k == CHOOSE i \in nl : \A j \in nl : i <= j
                  IN  <<SubSeq(content, 1, k - 1)>>
                        \o SplitLines(SubSeq(content, k + 1, Len(content)))

\* "\n".join(lines)
RECURSIVE JoinLines(_)
JoinLines(lines) ==
    IF lines = <<>> THEN <<>>
    ELSE IF Len(lines) = 1 THEN lines[1]
    ELSE lines[1] \o <<NL>> \o JoinLines(Tail(lines))

\* ------------------------------------------------------- CookieManager
\* A cookie file: whether it exists, and the characters it holds.
NoFile == [exists |-> FALSE, text |-> <<>>]
FileOf(text) == [exists |-> TRUE, text |-> text]

\* An entry of CookieManager._cache: absent, or the loaded record list.
NoCache == [loaded |-> FALSE, cookies |-> <<>>]
Cached(cookies) == [loaded |-> TRUE, cookies |-> cookies]

\* A line that is an account record: non-empty, not a comment, has "=".
IsCookieLine(line) ==
    LET stripped == Strip(line)
    IN  stripped # <<>> /\ ~IsComment(stripped) /\ HasChar(stripped, "=")

\* _load_cookies_from_file
RECURSIVE CookieLinesOf(_)
CookieLinesOf(lines) ==
    IF lines = <<>> THEN <<>>
    ELSE (IF IsCookieLine(Head(lines)) THEN <<Strip(Head(lines))>> ELSE <<>>)
            \o CookieLinesOf(Tail(lines))

load_cookies_from_file(file) ==
    IF ~file.exists THEN <<>> ELSE CookieLinesOf(SplitLines(file.text))

\* cookie_lines_indices of save_cookie: positions (1-based) of record lines.
RECURSIVE CookieLineIndices(_, _)
CookieLineIndices(lines, from) ==
    IF from > Len(lines) THEN <<>>
    ELSE (IF IsCookieLine(lines[from]) THEN <<from>> ELSE <<>>)
            \o CookieLineIndices(lines, from + 1)

\* The decimal digits of a small account number, as characters.
Digit(n) == <<"0", "1", "2", "3", "4", "5", "6", "7", "8", "9">>[n + 1]
RECURSIVE Decimal(_)
Decimal(n) == IF n < 10 THEN <<Digit(n)>> ELSE Decimal(n \div 10) \o <<Digit(n % 10)>>

AutoSavedComment(n) ==
    <<"#", " ", "A", "c", "c", "o", "u", "n", "t", " ">> \o Decimal(n)
        \o <<" ", "-", " ", "A", "u", "t", "o", "-", "s", "a", "v", "e", "d",
              " ", "a", "f", "t", "e", "r", " ", "l", "o", "g", "i", "n">>

\* Mutant: the record is always appended.
SavedLines_appending(file, cookie_str, account_index) ==
    LET lines == IF ~file.exists THEN <<>> ELSE SplitLines(file.text)
        idx   == CookieLineIndices(lines, 1)
    IN  (IF lines # <<>> /\ lines[Len(lines)] # <<>>
         THEN Append(lines, <<>>) ELSE lines)
           \o <<AutoSavedComment(Len(idx) + 1), Strip(cookie_str)>>

\* The lines save_cookie writes back (account_index is 0-based).
SavedLines(file, cookie_str, account_index) ==
    LET lines == IF ~file.exists THEN <<>> ELSE SplitLines(file.text)
        idx   == CookieLineIndices(lines, 1)
    IN  IF account_index < Len(idx)
        THEN [lines EXCEPT ![idx[account_index + 1]] = Strip(cookie_str)]
        ELSE (IF lines # <<>> /\ lines[Len(lines)] # <<>>
              THEN Append(lines, <<>>) ELSE lines)
                \o <<AutoSavedComment(Len(idx) + 1), Strip(cookie_str)>>

\* The file save_cookie leaves: the lines joined, newline at the end.
SavedFile(file, cookie_str, account_index) ==
    LET lines == SavedLines(file, cookie_str, account_index)
    IN  FileOf(IF lines = <<>> THEN <<>> ELSE JoinLines(lines) \o <<NL>>)

\* Mutant: only the empty string is rejected.
SaveRejected_only_empty(cookie_str) == cookie_str = <<>>

\* save_cookie rejects an empty or whitespace-only cookie string.
SaveRejected(cookie_str) == cookie_str = <<>> \/ Strip(cookie_str) = <<>>

\* Platform names callers pass to the cookie manager.
PlatformNames == {"xhs", "XHS", "xiaohongshu", "weibo", "douyin", "bilibili"}

\* str.lower() on the platform names of the model.
Lower(platform) == IF platform = "XHS" THEN "xhs" ELSE platform

\* _get_cookie_file: platform_files.get(platform.lower(), default).
CookieFileName(platform) ==
    LET name == Lower(platform)
    IN  CASE name \in {"xhs", "xiaohongshu"} -> "xhs_cookies.txt"
          [] name = "weibo" -> "weibo_cookies.txt"
          [] name = "douyin" -> "douyin_cookies.txt"
          [] name = "bilibili" -> "bilibili_cookies.txt"
          [] OTHER -> "other_cookies.txt"

FileNames == {CookieFileName(p) : p \in PlatformNames}
CacheKeys == {Lower(p) : p \in PlatformNames}

\* Mutant: the file is read on every call.
AllCookies_uncached(fs, ch, platform) ==
    load_cookies_from_file(fs[CookieFileName(Lower(platform))])

\* get_all_cookies: the cached list, or the records loaded from the file.
AllCookies(fs, ch, platform) ==
    IF ch[Lower(platform)].loaded
    THEN ch[Lower(platform)].cookies
    ELSE load_cookies_from_file(fs[CookieFileName(Lower(platform))])

\* Mutant: an empty list is cached whatever the file holds.
CacheAfterGetAll_empty(fs, ch, platform) ==
    IF ch[Lower(platform)].loaded THEN ch
    ELSE [ch EXCEPT ![Lower(platform)] = Cached(<<>>)]

\* The cache after get_all_cookies(platform).
CacheAfterGetAll(fs, ch, platform) ==
    IF ch[Lower(platform)].loaded THEN ch
    ELSE [ch EXCEPT ![Lower(platform)] = Cached(AllCookies(fs, ch, platform))]

\* The files after save_cookie(platform, cookie_str, account_index); io_ok is
\* whether the file operations of the call succeed.
FilesAfterSave(fs, platform, cookie_str, account_index, io_ok) ==
    IF SaveRejected(cookie_str) \/ ~io_ok THEN fs
    ELSE [fs EXCEPT ![CookieFileName(platform)] =
                        SavedFile(fs[CookieFileName(platform)], cookie_str, account_index)]

\* Mutant: the cache entry survives the save.
CacheAfterSave_keeping(ch, platform, cookie_str, io_ok) == ch

\* The cache after save_cookie: the platform's entry is dropped on success.
CacheAfterSave(ch, platform, cookie_str, io_ok) ==
    IF SaveRejected(cookie_str) \/ ~io_ok THEN ch
    ELSE [ch EXCEPT ![Lower(platform)] = NoCache]

\* The value save_cookie returns.
SaveResult(cookie_str, io_ok) == ~SaveRejected(cookie_str) /\ io_ok

\* --------------------------------------------------- BrowserSessionManager
\* Platforms whose sessions callers ask for; _setup_client_and_login knows
\* the first three.
SupportedPlatforms == {"xhs", "weibo", "douyin"}
Platforms == SupportedPlatforms \cup {"bilibili"}

\* The platforms the concurrent callers of Spec use: a supported one and one
\* that _setup_client_and_login rejects.
TwoPlatforms == {"xhs", "bilibili"}

\* Concurrent callers (asyncio tasks).
Tasks == {"t1", "t2"}
NoTask == "none"

\* Cookie strings the browser context can hold when they are read back
\* (utils.convert_cookies(await context.cookies())).
BrowserCookies == {<<>>, <<"n", "=", "1">>}

\* Cookie files the run can start with (the same for every platform).
InitFiles ==
    {NoFile,
     FileOf(<<"#", "x", NL, "a", "=", "1", NL, NL, "b", "=", "2", NL>>)}

VARIABLES
    sessions,   \* _sessions: sequence of [platform, id], in insertion order
    locks,      \* _locks: per platform, the lock's holder and its waiters
    pc,         \* where each task is suspended
    call,       \* the call each task is running
    local,      \* the local variables (and history) of that call
    ret,        \* what the task's last call returned
    objs,       \* every browser launched so far, by id
    files,      \* the cookie files
    cache,      \* CookieManager._cache
    out,        \* the last direct call of a cookie function and its result
    fc,         \* the adapter operation (facade call) in progress
    poll        \* the run of tools/manual_douyin_login.manual_login

vars == <<sessions, locks, pc, call, local, ret, objs, files, cache, out, fc,
          poll>>

\* platform in self._sessions
HasSession(ss, platform) == \E i \in 1..Len(ss) : ss[i].platform = platform

\* self._sessions[platform], 0 when the key is absent
SessionOf(ss, platform) ==
    IF HasSession(ss, platform)
    THEN ss[CHOOSE i \in 1..Len(ss) : ss[i].platform = platform].id
    ELSE 0

\* self._sessions[platform] = id (an existing key keeps its position)
PutSession(ss, platform, id) ==
    IF HasSession(ss, platform)
    THEN [i \in 1..Len(ss) |->
            IF ss[i].platform = platform THEN [platform |-> platform, id |-> id]
            ELSE ss[i]]
    ELSE Append(ss, [platform |-> platform, id |-> id])

\* Mutant: the entry stays in the registry.
DelSession_keeping(ss, platform) == ss

\* del self._sessions[platform]
DelSession(ss, platform) == SelectSeq(ss, LAMBDA e : e.platform # platform)

\* Mutant: close_all goes through the first platform only.
SessionKeys_first(ss) == IF ss = <<>> THEN <<>> ELSE <<ss[1].platform>>

\* list(self._sessions.keys())
SessionKeys(ss) == [i \in 1..Len(ss) |-> ss[i].platform]

NoCall ==
    [op |-> "none", platform |-> "none", headless |-> FALSE, force_new |-> FALSE,
     retained0 |-> {},        \* close_all: the sessions retained when it began
     launched0 |-> 0,         \* close_all: browsers launched until then
     busy0 |-> FALSE]         \* close_all: a get_session was running then

NoLocal ==
    [cur |-> "none",          \* platform whose lock the call works under
     todo |-> <<>>,           \* close_all: platforms still to close
     prev |-> 0,              \* session retained when the lock was taken
     sid |-> 0,               \* browser launched by this call
     probe |-> "none",        \* outcome of session.page.title()
     pong |-> "none",         \* outcome of client.pong()
     login |-> "none",        \* outcome of login_obj.begin()
     logins |-> 0,            \* times the interactive login was started
     is_logged_in |-> FALSE,
     swallowed |-> 0,         \* exceptions _cleanup_session has swallowed
     acct |-> -1,             \* account index get_cookie selected
     file0 |-> NoFile,        \* cookie file when the lock was taken
     cache0 |-> NoCache,      \* cache entry when the lock was taken
     fresh |-> FALSE,         \* get_session without force_new, started
                              \* while no session was retained
     peers |-> {}]            \* such calls for the platform in flight then

\* What a call returned, with the facts about the call that relate it to
\* the calls of other tasks.
NoRet == [kind |-> "none",      \* "session", "raise" or "done"
          id |-> 0,             \* the session returned
          force_new |-> FALSE,  \* the call's force_new
          fresh |-> FALSE,      \* as in the call's local variables
          launched |-> FALSE,   \* the call launched a browser
          swallowed |-> 0,      \* exceptions a close call swallowed
          probe_failed |-> FALSE]

\* A direct call of a CookieManager method: its arguments and what it
\* returned (ok: save_cookie; cookie: get_cookie; cookies: get_all_cookies;
\* count: get_account_count), n the number of such calls made so far.
NoOut ==
    [op |-> "none", platform |-> "none", cookie_str |-> <<>>,
     has_index |-> FALSE,     \* account_index is not None
     account_index |-> 0, random_select |-> FALSE,
     ok |-> FALSE, cookie |-> <<>>, cookies |-> <<>>, count |-> 0, n |-> 0,
     pairs |-> <<>>,          \* parse_cookie_string: the dict, in its order
     formatted |-> <<>>,      \* format_cookies_for_playwright: the list
     io_ok |-> TRUE,          \* the file operations of the call succeeded
     was_loaded |-> FALSE,    \* the platform was in _cache when it began
     repeated |-> FALSE,      \* same method and arguments as the call before
     changed |-> FALSE]       \* the call left the cookie file different

\* An adapter operation: its arguments, where it is suspended, the local
\* variables of the code, and the ToolResult it returned.
NoFc ==
    [pc |-> "idle",           \* "session", "launch", "page", "client",
                              \* "close" (the await it is at) or "done"
     adapter |-> "none", op |-> "none", headless |-> FALSE,
     save_results |-> FALSE,
     limit |-> 0,
     nkw |-> 0,               \* len(keyword_list)
     kw |-> 0,                \* position of the keyword being searched
     page |-> 0,              \* page (offset) of the next search request
     keyword_results |-> <<>>,
     results |-> <<>>,        \* both lists hold the records of Entries
     failed |-> {},           \* keywords whose search request raised
     logged_in |-> FALSE,     \* session.is_logged_in
     client_called |-> FALSE, \* a request was sent to the platform client
     found |-> FALSE,         \* the client returned the record asked for
     save_calls |-> 0,        \* calls of OutputManager.save_json
     exc |-> "none",          \* the exception the outermost handler caught
     cleaned |-> FALSE,       \* cleanup() has run since the last operation
     result |-> [kind |-> "none"]]

\* manual_login: where it is, and the local variables of its poll loop.
NoPoll ==
    [pc |-> "start",          \* "cookies", "evaluate", "sleep", "backup",
                              \* "done" or "raised"
     i |-> 0,                 \* the loop variable
     checks |-> 0,            \* iterations that have checked the signals
     sleeps |-> 0,            \* asyncio.sleep(2) calls of the loop
     is_login_cookie |-> FALSE,
     is_login_local |-> FALSE,
     evaluated |-> "none",    \* outcome of page.evaluate in this iteration
     logged_in |-> FALSE,
     context_closed |-> FALSE,
     file_written |-> FALSE]

\* No adapter operation and no manual login takes a step.
FacadeIdle == UNCHANGED <<fc, poll>>

\* A browser the manager launched, with the BrowserSession built around it.
NewObj(platform) ==
    [platform |-> platform,
     closeCalls |-> 0,        \* times browser.close() was awaited
     stopCalls |-> 0,         \* times playwright.stop() was awaited
     session |-> FALSE, is_logged_in |-> FALSE]

\* Browsers launched so far for a platform.
Launched(os, platform) == Cardinality({i \in 1..Len(os) : os[i].platform = platform})

\* Mutant: one lock for every platform.
LockOf_global(platform) == "xhs"

\* _get_lock: the key of the lock a platform's calls take, one per platform.
LockOf(platform) == platform

\* Mutant: acquire() never waits (no lock around get_session).
CanEnter_unlocked(lk, platform) == TRUE

\* asyncio.Lock: nobody holds it and nobody waits for it, so acquire()
\* returns without suspending.
CanEnter(lk, platform) ==
    lk[LockOf(platform)].holder = NoTask /\ lk[LockOf(platform)].waiters = <<>>

\* acquire() by a caller that has to wait: it joins the FIFO of waiters.
Enqueue(lk, platform, t) == [lk EXCEPT ![LockOf(platform)].waiters = Append(@, t)]

\* acquire() returns to t: at once, or as the first waiter after a release.
Take(lk, platform, t) ==
    [lk EXCEPT ![LockOf(platform)].holder = t,
               ![LockOf(platform)].waiters =
                   IF @ # <<>> /\ Head(@) = t THEN Tail(@) ELSE @]

\* release(): the lock is free and its first waiter is woken.
Release(lk, platform) == [lk EXCEPT ![LockOf(platform)].holder = NoTask]

\* The woken waiter t may take the lock.
Woken(lk, platform, t) ==
    /\ lk[LockOf(platform)].holder = NoTask
    /\ lk[LockOf(platform)].waiters # <<>>
    /\ Head(lk[LockOf(platform)].waiters) = t

Init ==
    /\ sessions = <<>>
    /\ locks = [p \in Platforms |-> [holder |-> NoTask, waiters |-> <<>>]]
    /\ pc = [t \in Tasks |-> "idle"]
    /\ call = [t \in Tasks |-> NoCall]
    /\ local = [t \in Tasks |-> NoLocal]
    /\ ret = [t \in Tasks |-> NoRet]
    /\ objs = <<>>
    /\ \E f \in InitFiles : files = [n \in FileNames |-> f]
    /\ cache = [k \in CacheKeys |-> NoCache]
    /\ out = NoOut
    /\ fc = NoFc
    /\ poll = NoPoll

\* get_session calls that have not launched their browser yet; a caller may
\* start another one while a launch is left for it.
PreLaunch == {"gs_lock", "gs_probe", "cu_close", "cu_stop", "cs_launch"}
Pending == {u \in Tasks : call[u].op = "get_session" /\ pc[u] \in PreLaunch}
LaunchLeft == Len(objs) + Cardinality(Pending) < MaxLaunch

\* The call c of task t ends: result kind ("session", "raise", "done"), the
\* session returned; loc is the call's local variables at that point.
Finish(t, c, kind, id, loc) ==
    /\ pc' = [pc EXCEPT ![t] = "idle"]
    /\ ret' = [ret EXCEPT ![t] =
                 IF kind = "session"
                 THEN [kind |-> kind, id |-> id,
                       force_new |-> c.force_new, fresh |-> loc.fresh,
                       launched |-> loc.sid # 0, swallowed |-> 0,
                       probe_failed |-> loc.probe = "fail"]
                 ELSE [NoRet EXCEPT !.kind = kind, !.swallowed = loc.swallowed]]
    /\ call' = [call EXCEPT ![t] = NoCall]
    /\ local' = [local EXCEPT ![t] = NoLocal]

\* The call c of task t is suspended at an await.
Suspend(t, c, at, loc) ==
    /\ pc' = [pc EXCEPT ![t] = at]
    /\ call' = [call EXCEPT ![t] = c]
    /\ local' = [local EXCEPT ![t] = loc]
    /\ ret' = [ret EXCEPT ![t] = NoRet]

\* Mutant: the session being created is stored before the exception leaves.
Raise_retaining(t, loc) ==
    /\ locks' = Release(locks, loc.cur)
    /\ Finish(t, call[t], "raise", 0, loc)
    /\ sessions' = IF loc.sid # 0 THEN PutSession(sessions, loc.cur, loc.sid)
                   ELSE sessions

\* An exception leaves get_session: "async with" releases the lock.
Raise(t, loc) ==
    /\ locks' = Release(locks, loc.cur)
    /\ Finish(t, call[t], "raise", 0, loc)
    /\ UNCHANGED sessions

\* _create_session up to its first await: get_cookie(platform) loads the
\* records (filling the cache) and picks one at random.
BeginCreate(t, c, loc) ==
    LET cookies == AllCookies(files, cache, loc.cur)
    IN  /\ cache' = CacheAfterGetAll(files, cache, loc.cur)
        /\ \E acct \in (IF cookies = <<>> THEN {-1} ELSE 0..(Len(cookies) - 1)) :
              Suspend(t, c, "cs_launch", [loc EXCEPT !.acct = acct])

\* Mutant: force_new is ignored.
Reuses_ignoring_force_new(ss, platform, force_new) == HasSession(ss, platform)

\* Mutant: a retained session is never reused.
Reuses_never(ss, platform, force_new) == FALSE

\* "if platform in self._sessions and not force_new": the retained session
\* is probed and reused.
Reuses(ss, platform, force_new) == HasSession(ss, platform) /\ ~force_new

\* get_session inside "async with self._get_lock(platform)", up to its first
\* await: the liveness probe of the retained session, or the browser launch.
EnterGetSession(t, c, loc0) ==
    LET p == loc0.cur
        loc == [loc0 EXCEPT !.prev = SessionOf(sessions, p),
                            !.file0 = files[CookieFileName(p)],
                            !.cache0 = cache[Lower(p)]]
    IN  /\ locks' = Take(locks, p, t)
        /\ IF Reuses(sessions, p, c.force_new)
           THEN /\ Suspend(t, c, "gs_probe", loc)
                /\ UNCHANGED cache
           ELSE BeginCreate(t, c, loc)

\* A caller starts get_session(platform, headless, force_new): it runs on
\* when the lock is free, and waits for the lock otherwise.
CallGetSession(t, platform, headless, force_new) ==
    /\ pc[t] = "idle"
    /\ LaunchLeft
    /\ LET c == [NoCall EXCEPT !.op = "get_session", !.platform = platform,
                                !.headless = headless, !.force_new = force_new]
           loc == [NoLocal EXCEPT
                     !.cur = platform,
                     !.fresh = ~force_new /\ ~HasSession(sessions, platform),
                     !.peers = {u \in Tasks \ {t} :
                                  /\ call[u].platform = platform
                                  /\ local[u].fresh}]
       IN  IF CanEnter(locks, platform)
           THEN EnterGetSession(t, c, loc)
           ELSE /\ locks' = Enqueue(locks, platform, t)
                /\ Suspend(t, c, "gs_lock", loc)
                /\ UNCHANGED cache
    /\ UNCHANGED <<sessions, objs, files>>
    /\ UNCHANGED <<out, fc, poll>>

\* The waiting get_session is woken and takes the lock.
GS_Acquire(t) ==
    /\ pc[t] = "gs_lock"
    /\ Woken(locks, local[t].cur, t)
    /\ EnterGetSession(t, call[t], local[t])
    /\ UNCHANGED <<sessions, objs, files>>
    /\ UNCHANGED <<out, fc, poll>>

\* await session.page.title(): the retained session is returned, or the
\* probe raises and _cleanup_session starts.
GS_Probe(t) ==
    /\ pc[t] = "gs_probe"
    /\ \E ok \in BOOLEAN :
          IF ok
          THEN /\ locks' = Release(locks, local[t].cur)
               /\ Finish(t, call[t], "session", SessionOf(sessions, local[t].cur),
                         [local[t] EXCEPT !.probe = "ok"])
          ELSE /\ Suspend(t, call[t], "cu_close", [local[t] EXCEPT !.probe = "fail"])
               /\ UNCHANGED locks
    /\ UNCHANGED <<sessions, objs, files, cache>>
    /\ UNCHANGED <<out, fc, poll>>

\* Mutant: an exception of browser.close() is not caught; it leaves the
\* call at once (the awaiting caller is seen idle, nothing else is done).
CloseStep_propagating(t, id, raised) ==
    /\ objs' = [objs EXCEPT ![id].closeCalls = @ + 1]
    /\ local' = local
    /\ pc' = [pc EXCEPT ![t] = IF raised THEN "idle" ELSE "cu_stop"]

\* "try: await session.browser.close() / except Exception: pass": whether
\* or not close() raised, _cleanup_session goes on to playwright.stop().
CloseStep(t, id, raised) ==
    /\ objs' = [objs EXCEPT ![id].closeCalls = @ + 1]
    /\ local' = [local EXCEPT ![t].swallowed = @ + (IF raised THEN 1 ELSE 0)]
    /\ pc' = [pc EXCEPT ![t] = "cu_stop"]

\* _cleanup_session: await session.browser.close(), errors swallowed.
CU_Close(t) ==
    /\ pc[t] = "cu_close"
    /\ LET id == SessionOf(sessions, local[t].cur)
       IN  \E raised \in BOOLEAN :
             CloseStep(t, id, raised)
    /\ UNCHANGED <<sessions, locks, call, ret, files, cache>>
    /\ UNCHANGED <<out, fc, poll>>

\* close_session(platform) for the platforms of todo, in order, as far as it
\* runs without suspending: with the lock free and no session retained,
\* _cleanup_session does nothing and the lock is released at once.
RECURSIVE SkipIdle(_, _, _)
SkipIdle(todo, ss, lk) ==
    IF todo # <<>> /\ CanEnter(lk, Head(todo)) /\ ~HasSession(ss, Head(todo))
    THEN SkipIdle(Tail(todo), ss, lk)
    ELSE todo

\* close_session / close_all go on with the platforms of todo; ss and lk are
\* the registry and the locks as this step leaves them otherwise, sw the
\* exceptions the call has swallowed so far.
NextClose(t, c, todo, ss, lk, sw) ==
    LET rest == SkipIdle(todo, ss, lk)
    IN  IF rest = <<>>
        THEN /\ locks' = lk
             /\ Finish(t, c, "done", 0, [NoLocal EXCEPT !.swallowed = sw])
        ELSE LET q == Head(rest)
                 loc == [NoLocal EXCEPT !.todo = rest, !.cur = q,
                                        !.prev = SessionOf(ss, q),
                                        !.swallowed = sw]
             IN  IF CanEnter(lk, q)
                 THEN /\ locks' = Take(lk, q, t)
                      /\ Suspend(t, c, "cu_close", loc)
                 ELSE /\ locks' = Enqueue(lk, q, t)
                      /\ Suspend(t, c, "cl_lock", loc)

\* _cleanup_session: await session.playwright.stop(), errors swallowed, then
\* del self._sessions[platform]; the caller goes on.
CU_Stop(t) ==
    /\ pc[t] = "cu_stop"
    /\ objs' = [objs EXCEPT ![SessionOf(sessions, local[t].cur)].stopCalls = @ + 1]
    /\ sessions' = DelSession(sessions, local[t].cur)
    /\ \E raised \in BOOLEAN :
          IF call[t].op = "get_session"
          THEN /\ BeginCreate(t, call[t], [local[t] EXCEPT !.swallowed = 0])
               /\ UNCHANGED locks
          ELSE /\ NextClose(t, call[t], Tail(local[t].todo), sessions',
                            Release(locks, local[t].cur),
                            local[t].swallowed + (IF raised THEN 1 ELSE 0))
               /\ UNCHANGED cache
    /\ UNCHANGED files
    /\ UNCHANGED <<out, fc, poll>>

\* A caller starts close_session(platform).
CallCloseSession(t, platform) ==
    /\ pc[t] = "idle"
    /\ NextClose(t, [NoCall EXCEPT !.op = "close_session", !.platform = platform],
                 <<platform>>, sessions, locks, 0)
    /\ UNCHANGED <<sessions, objs, files, cache>>
    /\ UNCHANGED <<out, fc, poll>>

\* A caller starts close_all(): it goes through a snapshot of the keys.
CallCloseAll(t) ==
    /\ pc[t] = "idle"
    /\ NextClose(t, [NoCall EXCEPT
                        !.op = "close_all",
                        !.retained0 = {sessions[i].id : i \in 1..Len(sessions)},
                        !.launched0 = Len(objs),
                        !.busy0 = \E u \in Tasks : call[u].op = "get_session"],
                 SessionKeys(sessions), sessions, locks, 0)
    /\ UNCHANGED <<sessions, objs, files, cache>>
    /\ UNCHANGED <<out, fc, poll>>

\* The waiting close_session is woken and takes the lock; with no session
\* left to clean up it releases the lock again at once.
CL_Acquire(t) ==
    /\ pc[t] = "cl_lock"
    /\ Woken(locks, local[t].cur, t)
    /\ IF HasSession(sessions, local[t].cur)
       THEN /\ locks' = Take(locks, local[t].cur, t)
            /\ Suspend(t, call[t], "cu_close",
                       [local[t] EXCEPT !.prev = SessionOf(sessions, local[t].cur)])
       ELSE NextClose(t, call[t], Tail(local[t].todo), sessions,
                      Release(Take(locks, local[t].cur, t), local[t].cur),
                      local[t].swallowed)
    /\ UNCHANGED <<sessions, objs, files, cache>>
    /\ UNCHANGED <<out, fc, poll>>

\* Outcomes of the awaited calls into the browser driver and the platform
\* client: the call returns, or raises.
PongOutcomes == {"true", "false", "raise"}

\* Outcomes of "await login_obj.begin()": the login is confirmed, or the
\* poll budget runs out and begin() returns, or it raises.
LoginOutcomes == {"confirmed", "timeout_returns", "timeout_raises"}

\* What a setup function does after client.pong(): "save" (logged in, go on
\* to save the cookies), "return_false" (return client, False) or "login"
\* (start the interactive login).
setup_xhs_client(pong, headless) ==
    IF pong THEN "save" ELSE IF headless THEN "return_false" ELSE "login"

\* Mutant: headless is not looked at.
setup_weibo_client_ignoring_headless(pong, headless) ==
    IF pong THEN "save" ELSE "login"

setup_weibo_client(pong, headless) ==
    IF pong THEN "save" ELSE IF headless THEN "return_false" ELSE "login"

setup_douyin_client(pong, headless) ==
    IF pong THEN "save" ELSE IF headless THEN "return_false" ELSE "login"

\* _setup_client_and_login: dispatch on the platform; any other platform
\* raises ValueError.
setup_client_and_login(platform, pong, headless) ==
    CASE platform = "xhs" -> setup_xhs_client(pong, headless)
      [] platform = "weibo" -> setup_weibo_client(pong, headless)
      [] platform = "douyin" -> setup_douyin_client(pong, headless)
      [] OTHER -> "unsupported"

\* is_logged_in after login_obj.begin() has returned.
LoggedInAfterLogin(outcome) == TRUE

\* "Save cookies to file": if is_logged_in, the cookies read back from the
\* browser are saved with save_cookie(platform, new_cookie_str) when they
\* are not empty (account_index defaults to 0).
SaveAfterSetup(t, loc, pcNext) ==
    \E new \in BrowserCookies, io_ok \in BOOLEAN :
       LET saving == loc.is_logged_in /\ new # <<>>
       IN  /\ files' = IF saving
                       THEN FilesAfterSave(files, loc.cur, new, 0, io_ok)
                       ELSE files
           /\ cache' = IF saving
                       THEN CacheAfterSave(cache, loc.cur, new, io_ok)
                       ELSE cache
           /\ Suspend(t, call[t], pcNext, loc)

\* await async_playwright().start(); await p.chromium.launch(...)
CS_Launch(t) ==
    /\ pc[t] = "cs_launch"
    /\ \E ok \in BOOLEAN :
          IF ok
          THEN /\ objs' = Append(objs, NewObj(local[t].cur))
               /\ Suspend(t, call[t], "cs_nav", [local[t] EXCEPT !.sid = Len(objs) + 1])
               /\ UNCHANGED <<sessions, locks>>
          ELSE /\ Raise(t, local[t])
               /\ UNCHANGED objs
    /\ UNCHANGED <<files, cache>>
    /\ UNCHANGED <<out, fc, poll>>

\* new_context, add_init_script, add_cookies, new_page, page.goto (tried
\* twice), then _setup_client_and_login rejects an unsupported platform.
CS_Nav(t) ==
    /\ pc[t] = "cs_nav"
    /\ \E ok \in BOOLEAN :
          IF ~ok
          THEN Raise(t, local[t])
          ELSE IF setup_client_and_login(local[t].cur, TRUE, FALSE) = "unsupported"
          THEN Raise(t, local[t])
          ELSE /\ Suspend(t, call[t], "cs_pong", local[t])
               /\ UNCHANGED <<sessions, locks>>
    /\ UNCHANGED <<objs, files, cache>>
    /\ UNCHANGED <<out, fc, poll>>

\* is_logged_in = await client.pong(), and what the setup function does next.
CS_Pong(t) ==
    /\ pc[t] = "cs_pong"
    /\ \E res \in PongOutcomes :
          IF res = "raise"
          THEN /\ Raise(t, [local[t] EXCEPT !.pong = "raise"])
               /\ UNCHANGED <<files, cache>>
          ELSE LET pong == (res = "true")
                   todo == setup_client_and_login(local[t].cur, pong, call[t].headless)
                   loc  == [local[t] EXCEPT !.pong = IF pong THEN "ok" ELSE "fail",
                                            !.is_logged_in = pong]
               IN  /\ CASE todo = "save" -> SaveAfterSetup(t, loc, "cs_final")
                        [] todo = "return_false" ->
                             /\ Suspend(t, call[t], "cs_final", loc)
                             /\ UNCHANGED <<files, cache>>
                        [] OTHER ->
                             /\ Suspend(t, call[t], "cs_login",
                                        [loc EXCEPT !.logins = @ + 1])
                             /\ UNCHANGED <<files, cache>>
                   /\ UNCHANGED <<sessions, locks>>
    /\ UNCHANGED objs
    /\ UNCHANGED <<out, fc, poll>>

\* await login_obj.begin(); when it returns, is_logged_in = True and the
\* cookies are saved.
CS_Login(t) ==
    /\ pc[t] = "cs_login"
    /\ \E res \in LoginOutcomes :
          IF res = "timeout_raises"
          THEN /\ Raise(t, [local[t] EXCEPT !.login = res])
               /\ UNCHANGED <<files, cache>>
          ELSE /\ SaveAfterSetup(t, [local[t] EXCEPT
                                       !.login = res,
                                       !.is_logged_in = LoggedInAfterLogin(res)],
                                 "cs_final")
               /\ UNCHANGED <<sessions, locks>>
    /\ UNCHANGED objs
    /\ UNCHANGED <<out, fc, poll>>

\* The registry after get_session has created a session: the new session
\* is stored under the platform.
RegistryAfterCreate(ss, platform, id) == PutSession(ss, platform, id)

\* "Get final cookies" (await context.cookies()), BrowserSession(...) is
\* built, get_session stores it in the registry and returns it.
CS_Final(t) ==
    /\ pc[t] = "cs_final"
    /\ \E ok \in BOOLEAN :
          IF ~ok
          THEN /\ Raise(t, local[t])
               /\ UNCHANGED objs
          ELSE /\ objs' = [objs EXCEPT
                             ![local[t].sid].session = TRUE,
                             ![local[t].sid].is_logged_in = local[t].is_logged_in]
               /\ sessions' = RegistryAfterCreate(sessions, local[t].cur, local[t].sid)
               /\ locks' = Release(locks, local[t].cur)
               /\ Finish(t, call[t], "session", local[t].sid, local[t])
    /\ UNCHANGED <<files, cache>>
    /\ UNCHANGED <<out, fc, poll>>

\* The steps of the callers ts, whose calls name platforms of ps.
NextOf(ts, ps) ==
    \/ \E t \in ts, p \in ps, h \in BOOLEAN, f \in BOOLEAN :
          CallGetSession(t, p, h, f)
    \/ \E t \in ts, p \in ps : CallCloseSession(t, p)
    \/ \E t \in ts : CallCloseAll(t)
    \/ \E t \in ts : GS_Acquire(t)
    \/ \E t \in ts : GS_Probe(t)
    \/ \E t \in ts : CU_Close(t)
    \/ \E t \in ts : CU_Stop(t)
    \/ \E t \in ts : CL_Acquire(t)
    \/ \E t \in ts : CS_Launch(t)
    \/ \E t \in ts : CS_Nav(t)
    \/ \E t \in ts : CS_Pong(t)
    \/ \E t \in ts : CS_Login(t)
    \/ \E t \in ts : CS_Final(t)

\* Two concurrent callers on two platforms.
Next == NextOf(Tasks, TwoPlatforms)
Spec == Init /\ [][Next]_vars

\* One caller on every platform: it never waits for a lock.
NextSolo ==
    \/ \E p \in Platforms, h \in BOOLEAN, f \in BOOLEAN :
          CallGetSession("t1", p, h, f)
    \/ \E p \in Platforms : CallCloseSession("t1", p)
    \/ CallCloseAll("t1")
    \/ GS_Probe("t1")
    \/ CU_Close("t1")
    \/ CU_Stop("t1")
    \/ CS_Launch("t1")
    \/ CS_Nav("t1")
    \/ CS_Pong("t1")
    \/ CS_Login("t1")
    \/ CS_Final("t1")

SpecSolo == Init /\ [][NextSolo]_vars

\* Two concurrent callers on two supported platforms.
PairPlatforms == {"xhs", "weibo"}
NextPair == NextOf(Tasks, PairPlatforms)
SpecPair == Init /\ [][NextPair]_vars

\* The manager is not running any session call.
SessionsIdle ==
    UNCHANGED <<sessions, locks, pc, call, local, ret, objs>>

\* -------------------------------------------------- parse_cookie_string
\* s.split(sep): the pieces between the separators, empty ones included.
RECURSIVE SplitOn(_, _)
SplitOn(s, sep) ==
    LET at == {i \in 1..Len(s) : s[i] = sep}
    IN  IF at = {} THEN <<s>>
        ELSE LET k == CHOOSE i \in at : \A j \in at : i <= j
             IN  <<SubSeq(s, 1, k - 1)>> \o SplitOn(SubSeq(s, k + 1, Len(s)), sep)

\* item.split("=", 1) of a stripped item that holds "=", both parts stripped.
KeyValue(item) ==
    LET k == CHOOSE i \in 1..Len(item) :
                 item[i] = "=" /\ \A j \in 1..(i - 1) : item[j] # "="
    IN  [name |-> Strip(SubSeq(item, 1, k - 1)),
         value |-> Strip(SubSeq(item, k + 1, Len(item)))]

\* cookie_dict[key] = value: a key the dict has keeps its place and gets
\* the new value, a new key goes to the end.
DictPut(dict, kv) ==
    IF \E i \in 1..Len(dict) : dict[i].name = kv.name
    THEN [i \in 1..Len(dict) |-> IF dict[i].name = kv.name THEN kv ELSE dict[i]]
    ELSE Append(dict, kv)

\* The loop of parse_cookie_string over the items, from the dict so far.
RECURSIVE ParseItems(_, _)
ParseItems(items, dict) ==
    IF items = <<>> THEN dict
    ELSE LET item == Strip(Head(items))
         IN  ParseItems(Tail(items),
                        IF HasChar(item, "=") THEN DictPut(dict, KeyValue(item))
                        ELSE dict)

\* parse_cookie_string(cookie_str): the dict as its items, in order.
parse_cookie_string(cookie_str) ==
    IF cookie_str = <<>> THEN <<>>
    ELSE ParseItems(SplitOn(cookie_str, ";"), <<>>)

\* format_cookies_for_playwright(cookie_str, domain, path)
format_cookies_for_playwright(cookie_str, domain, path) ==
    LET dict == parse_cookie_string(cookie_str)
    IN  [i \in 1..Len(dict) |->
            [name |-> dict[i].name, value |-> dict[i].value,
             domain |-> domain, path |-> path]]

\* Number of ";"-separated segments of the cookie strings parsed.
MaxSegments == 3

\* Segments the parsed cookie strings are made of.
Segments ==
    {<<>>, <<" ">>, <<"a", "=", "1">>, <<" ", "a", " ", "=", " ", "1", " ">>,
     <<"a", "=", "2">>, <<"b", "=", "1", "=", "2">>, <<"a", "b">>, <<"=">>}

\* segments[1] ; segments[2] ; ...
RECURSIVE JoinOn(_, _)
JoinOn(segments, sep) ==
    IF Len(segments) = 1 THEN segments[1]
    ELSE segments[1] \o <<sep>> \o JoinOn(Tail(segments), sep)

\* The cookie strings parsed: up to MaxSegments segments, and the empty one.
ParsedStrs ==
    {JoinOn(segs, ";") :
        segs \in UNION {[1..n -> Segments] : n \in 1..MaxSegments}}

\* Cookie domains passed to format_cookies_for_playwright.
Domains == {".xiaohongshu.com"}

\* parse_cookie_string(cookie_str) is called. The function keeps no state,
\* so the calls made from the initial state are all its calls.
CallParse(cookie_str) ==
    /\ out.op = "none"
    /\ out' = [NoOut EXCEPT !.op = "parse_cookie_string",
                            !.cookie_str = cookie_str,
                            !.pairs = parse_cookie_string(cookie_str)]
    /\ UNCHANGED <<files, cache>>
    /\ SessionsIdle
    /\ FacadeIdle

\* format_cookies_for_playwright(cookie_str, domain) is called (path "/").
CallFormat(cookie_str, domain) ==
    /\ out.op = "none"
    /\ out' = [NoOut EXCEPT !.op = "format_cookies_for_playwright",
                            !.cookie_str = cookie_str,
                            !.formatted =
                                format_cookies_for_playwright(cookie_str, domain, "/")]
    /\ UNCHANGED <<files, cache>>
    /\ SessionsIdle
    /\ FacadeIdle

NextParse ==
    \/ \E s \in ParsedStrs : CallParse(s)
    \/ \E s \in ParsedStrs, d \in Domains : CallFormat(s, d)

SpecParse == Init /\ [][NextParse]_vars

\* ------------------------------------------- CookieManager called directly
\* Calls made to the cookie manager in one run.
MaxOps == 3

\* The names the direct callers use: one platform under its two names of
\* platform_files, one of them also in upper case.
CookieNames == {"xhs", "XHS", "xiaohongshu"}

\* A cookie string save_cookie accepts, and one it rejects.
TwoCookieStrs == {<<"c", "=", "3">>, <<" ">>}

\* Cookie strings passed to save_cookie.
CookieStrs ==
    {<<>>,
     <<" ">>,
     <<"a", "=", "1">>,
     <<" ", "a", "=", "1", NL>>,
     <<"c", "=", "3">>,
     <<"a", "b">>,
     <<"#", "a", "=", "1">>,
     <<"a", "=", "1", NL, "c", "=", "3">>}

\* Account indices passed to save_cookie and get_cookie.
AccountIndices == 0..2

\* Contents the platform's cookie file has at the start, or gets from
\* outside the manager: none, comments and blank lines around two records,
\* and a padded record, a comment holding "=" and a line without "=".
CookieFiles ==
    InitFiles \cup
    {FileOf(<<" ", "b", "=", "2", " ", NL, "#", "c", "=", "3", NL, "z", "z">>)}

\* get_cookie: the values it can return for the loaded records.
GetCookieResults(cookies, has_index, account_index, random_select) ==
    IF cookies = <<>> THEN {<<>>}
    ELSE IF has_index
    THEN {IF 0 <= account_index /\ account_index < Len(cookies)
          THEN cookies[account_index + 1] ELSE <<>>}
    ELSE IF random_select
    THEN {cookies[k] : k \in 1..Len(cookies)}
    ELSE {cookies[1]}

\* save_cookie(platform, cookie_str, account_index) is called.
CM_SaveCookie(platform, cookie_str, account_index) ==
    /\ out.n < MaxOps
    /\ \E io_ok \in BOOLEAN :
          /\ files' = FilesAfterSave(files, platform, cookie_str, account_index, io_ok)
          /\ cache' = CacheAfterSave(cache, platform, cookie_str, io_ok)
          /\ out' = [NoOut EXCEPT !.op = "save_cookie", !.platform = platform,
                                  !.cookie_str = cookie_str,
                                  !.has_index = TRUE,
                                  !.account_index = account_index,
                                  !.ok = SaveResult(cookie_str, io_ok),
                                  !.n = out.n + 1,
                                  !.io_ok = io_ok,
                                  !.was_loaded = cache[Lower(platform)].loaded,
                                  !.repeated = /\ out.op = "save_cookie"
                                               /\ out.platform = platform
                                               /\ out.cookie_str = cookie_str
                                               /\ out.account_index = account_index,
                                  !.changed = files' # files]
    /\ SessionsIdle
    /\ FacadeIdle

\* get_cookie(platform, account_index, random_select) is called.
CM_GetCookie(platform, has_index, account_index, random_select) ==
    /\ out.n < MaxOps
    /\ cache' = CacheAfterGetAll(files, cache, platform)
    /\ \E c \in GetCookieResults(AllCookies(files, cache, platform),
                                  has_index, account_index, random_select) :
          out' = [NoOut EXCEPT !.op = "get_cookie", !.platform = platform,
                               !.has_index = has_index,
                               !.account_index = account_index,
                               !.random_select = random_select,
                               !.cookie = c,
                               !.was_loaded = cache[Lower(platform)].loaded,
                               !.n = out.n + 1]
    /\ UNCHANGED files
    /\ SessionsIdle
    /\ FacadeIdle

\* get_all_cookies(platform) is called.
CM_GetAllCookies(platform) ==
    /\ out.n < MaxOps
    /\ cache' = CacheAfterGetAll(files, cache, platform)
    /\ out' = [NoOut EXCEPT !.op = "get_all_cookies", !.platform = platform,
                            !.cookies = AllCookies(files, cache, platform),
                            !.was_loaded = cache[Lower(platform)].loaded,
                            !.n = out.n + 1]
    /\ UNCHANGED files
    /\ SessionsIdle
    /\ FacadeIdle

\* get_account_count(platform) is called.
CM_GetAccountCount(platform) ==
    /\ out.n < MaxOps
    /\ cache' = CacheAfterGetAll(files, cache, platform)
    /\ out' = [NoOut EXCEPT !.op = "get_account_count", !.platform = platform,
                            !.count = Len(AllCookies(files, cache, platform)),
                            !.was_loaded = cache[Lower(platform)].loaded,
                            !.n = out.n + 1]
    /\ UNCHANGED files
    /\ SessionsIdle
    /\ FacadeIdle

\* clear_cache() is called.
CM_ClearCache ==
    /\ out.n < MaxOps
    /\ cache' = [k \in CacheKeys |-> NoCache]
    /\ out' = [NoOut EXCEPT !.op = "clear_cache", !.n = out.n + 1]
    /\ UNCHANGED files
    /\ SessionsIdle
    /\ FacadeIdle

\* The platform's cookie file is edited outside the manager (not a call of
\* the manager: n stays).
ExternalEdit(platform, file) ==
    /\ file # files[CookieFileName(platform)]
    /\ files' = [files EXCEPT ![CookieFileName(platform)] = file]
    /\ out' = [NoOut EXCEPT !.op = "external_edit", !.platform = platform,
                            !.n = out.n, !.changed = TRUE]
    /\ UNCHANGED cache
    /\ SessionsIdle
    /\ FacadeIdle

InitCookie ==
    /\ sessions = <<>>
    /\ locks = [p \in Platforms |-> [holder |-> NoTask, waiters |-> <<>>]]
    /\ pc = [t \in Tasks |-> "idle"]
    /\ call = [t \in Tasks |-> NoCall]
    /\ local = [t \in Tasks |-> NoLocal]
    /\ ret = [t \in Tasks |-> NoRet]
    /\ objs = <<>>
    /\ \E f \in CookieFiles :
          files = [n \in FileNames |->
                     IF n = CookieFileName("xhs") THEN f ELSE NoFile]
    /\ cache = [k \in CacheKeys |-> NoCache]
    /\ out = NoOut
    /\ fc = NoFc
    /\ poll = NoPoll

\* save_cookie and the reads, for one name, every cookie string and index.
NextSave ==
    \/ \E s \in CookieStrs, i \in AccountIndices : CM_SaveCookie("xhs", s, i)
    \/ \E h \in BOOLEAN, i \in AccountIndices, r \in BOOLEAN :
          CM_GetCookie("xhs", h, i, r)
    \/ CM_GetAllCookies("xhs")

SpecSave == InitCookie /\ [][NextSave]_vars

\* Every method under every name, with edits of the file from outside.
NextCache ==
    \/ \E p \in CookieNames, s \in TwoCookieStrs : CM_SaveCookie(p, s, 0)
    \/ \E p \in CookieNames, h \in BOOLEAN : CM_GetCookie(p, h, 0, TRUE)
    \/ \E p \in CookieNames : CM_GetAllCookies(p)
    \/ \E p \in CookieNames : CM_GetAccountCount(p)
    \/ CM_ClearCache
    \/ \E f \in CookieFiles : ExternalEdit("xhs", f)

SpecCache == InitCookie /\ [][NextCache]_vars

\* --------------------------------------------------------------- adapters
\* Largest limit, number of keywords and number of items of one page that
\* the adapter operations are called with.
MaxLimit == 3
MaxKeywords == 3
MaxItems == 2

\* Page numbers that are told apart.
MaxPages == MaxLimit + 1

\* ADAPTER_REGISTRY
Adapters == {"xhs", "douyin", "kuaishou", "bilibili", "weibo", "tieba", "zhihu"}

\* The adapters that work on a session of the BrowserSessionManager
\* (_get_session); the others launch a browser of their own in every call.
SessionAdapters == {"xhs", "weibo", "douyin"}

\* The operations of an adapter: search_*, get_*_detail, get_*_comments and
\* get_creator_info / get_user_info / get_up_info / get_tieba_info.
Ops == {"search", "detail", "comments", "profile"}

Limits == 1..MaxLimit
KeywordCounts == 1..MaxKeywords

Min(a, b) == IF a <= b THEN a ELSE b

\* The next n entries a keyword's search yields, after the from that arrived
\* before them, as the records the adapter makes of them: "keyword" is the
\* keyword, n stands for the identifier (note_id, video_id, ...).
Entries(kw, from, n) == [i \in 1..n |-> [keyword |-> kw, n |-> from + i]]

\* s[:n]
Prefix(s, n) == SubSeq(s, 1, Min(n, Len(s)))

\* What a search request of the client does: it raises, returns nothing
\* (None or an empty dict), or returns a page. Of a page: items, the entries
\* the adapter collects; junk, entries it skips (xhs: model_type rec_query
\* or hot_query; douyin: no aweme_info; weibo: no mblog); dropped, cards
\* that filter_search_result_card removes (weibo); has_more as the page
\* declares it (xhs, douyin).
Responses(adapter) ==
    {[kind |-> "raise", items |-> 0, junk |-> 0, dropped |-> 0, has_more |-> FALSE],
     [kind |-> "none", items |-> 0, junk |-> 0, dropped |-> 0, has_more |-> FALSE]}
    \cup
    [kind : {"page"}, items : 0..MaxItems,
     junk : IF adapter \in SessionAdapters THEN 0..1 ELSE {0},
     dropped : IF adapter = "weibo" THEN 0..1 ELSE {0},
     has_more : IF adapter \in {"xhs", "douyin"} THEN BOOLEAN ELSE {FALSE}]

\* ToolResult(success=..., data=..., error=..., metadata=...); error is
\* "none" for None, data <<>> for None.
ToolResult(success, data, error, metadata) ==
    [kind |-> "ToolResult", success |-> success, data |-> data,
     error |-> error, metadata |-> metadata]

\* ToolResult(success=False, error=message, metadata={"platform": ...})
Failure(f, message) ==
    ToolResult(FALSE, <<>>, message, [platform |-> f.adapter])

\* The operation returns.
Return(f, result) == [f EXCEPT !.pc = "done", !.result = result]

\* Mutant: the outermost handler lets the exception go.
Outermost_reraising(f, message) ==
    [f EXCEPT !.pc = "done", !.exc = message,
              !.result = [kind |-> "raise", error |-> message]]

\* "except Exception as e: return ToolResult(success=False, error=str(e),
\* metadata={"platform": self.platform})" around the whole operation.
Outermost(f, message) ==
    Return([f EXCEPT !.exc = message], Failure(f, message))

\* limit_per_keyword = limit // len(keyword_list)
PerKeyword(f) == f.limit \div f.nkw

\* "if save_results and final_results"
Saves(f, final_results) == f.save_results /\ final_results # <<>>

\* The end of a search of a session adapter: final_results = results[:limit],
\* the optional save_json (save_ok: it does not raise), the ToolResult.
Finalize(f, save_ok) ==
    LET final_results == Prefix(f.results, f.limit)
        Meta(saved_path) ==
            [total |-> Len(final_results), keywords |-> f.nkw,
             platform |-> f.adapter, saved_path |-> saved_path]
    IN  IF Saves(f, final_results)
        THEN LET f1 == [f EXCEPT !.save_calls = @ + 1]
             IN  IF save_ok
                 THEN Return(f1, ToolResult(TRUE, final_results, "none", Meta("path")))
                 ELSE Outermost(f1, "save_json failed")
        ELSE Return(f, ToolResult(TRUE, final_results, "none", Meta("none")))

\* The first keyword's loop is entered ("while len(keyword_results) <
\* limit_per_keyword"); with a limit_per_keyword of 0 no loop runs.
StartKeywords(f, save_ok) ==
    IF PerKeyword(f) > 0
    THEN [f EXCEPT !.pc = "page", !.kw = 1, !.page = 1, !.keyword_results = <<>>]
    ELSE Finalize([f EXCEPT !.kw = f.nkw], save_ok)

\* Mutant: an exception of one keyword's request ends the keywords' loop.
EndKeyword_aborting(f, save_ok) ==
    LET f1 == [f EXCEPT !.results = @ \o f.keyword_results,
                        !.keyword_results = <<>>]
    IN  IF f.kw < f.nkw /\ f.kw \notin f.failed
        THEN [f1 EXCEPT !.kw = @ + 1, !.page = 1]
        ELSE Finalize(f1, save_ok)

\* Mutant: the keyword's results are put in front of the ones before.
EndKeyword_prepending(f, save_ok) ==
    LET f1 == [f EXCEPT !.results = f.keyword_results \o @,
                        !.keyword_results = <<>>]
    IN  IF f.kw < f.nkw
        THEN [f1 EXCEPT !.kw = @ + 1, !.page = 1]
        ELSE Finalize(f1, save_ok)

\* A keyword's loop has ended: results.extend(keyword_results), and the next
\* keyword's loop is entered, or the search ends.
EndKeyword(f, save_ok) ==
    LET f1 == [f EXCEPT !.results = @ \o f.keyword_results,
                        !.keyword_results = <<>>]
    IN  IF f.kw < f.nkw
        THEN [f1 EXCEPT !.kw = @ + 1, !.page = 1]
        ELSE Finalize(f1, save_ok)

\* Items of a page that a session adapter appends to keyword_results: "if
\* len(keyword_results) >= limit_per_keyword: break" ends the page early.
Collects(f, resp) ==
    IF resp.kind = "page"
    THEN Min(resp.items, PerKeyword(f) - Len(f.keyword_results))
    ELSE 0

\* The keyword's loop goes on to another request after this page: no
\* exception, a response, a page that is not empty (weibo: after the filter
\* too), has_more where the adapter reads it, and the loop condition.
Continues(f, resp, got) ==
    /\ resp.kind = "page"
    /\ resp.items + resp.junk + resp.dropped > 0
    /\ CASE f.adapter = "weibo" -> resp.items + resp.junk > 0
         [] OTHER -> resp.has_more
    /\ got < PerKeyword(f)

\* page += 1 (douyin: offset = cursor). Page numbers past MaxPages are
\* folded onto the last two, so that every request is a step of its own.
NextPage(page) == IF page < MaxPages THEN page + 1 ELSE MaxPages - 1

\* An adapter operation is called. parse_ok: the identifier given to a
\* detail or comments operation is parsed without an exception.
FC_Call(adapter, op, headless, save_results, limit, nkw, parse_ok) ==
    /\ fc.pc = "idle"
    /\ parse_ok \/ op \in {"detail", "comments"}
    /\ LET f == [NoFc EXCEPT !.adapter = adapter, !.op = op,
                             !.headless = headless,
                             !.save_results = save_results,
                             !.limit = limit, !.nkw = nkw]
       IN  fc' = IF ~parse_ok THEN Outermost(f, "identifier not parsed")
                 ELSE [f EXCEPT !.pc = IF adapter \in SessionAdapters
                                       THEN "session" ELSE "launch"]
    /\ UNCHANGED <<files, cache, out, poll>>
    /\ SessionsIdle

\* Mutant: search goes on without a login and without a cookie.
AfterSession_searching(f, outcome, cookie, save_ok) ==
    IF outcome = "raise" THEN Outermost(f, "session not acquired")
    ELSE LET f1 == [f EXCEPT !.logged_in = (outcome = "logged_in")]
         IN  IF f.op # "search" THEN [f1 EXCEPT !.pc = "client"]
             ELSE StartKeywords(f1, save_ok)

\* The error of a headless search that has neither a login nor a cookie.
NoCookiesError == "No cookies found and headless mode enabled"

\* "session = await self._get_session()" has ended (outcome: it raised, or
\* returned a session that is or is not logged in), and the operation runs
\* on to its first client request. search: a session that is not logged in
\* makes the adapter read the cookie (_get_cookie), and without one it
\* gives up in headless mode.
AfterSession(f, outcome, cookie, save_ok) ==
    IF outcome = "raise" THEN Outermost(f, "session not acquired")
    ELSE LET f1 == [f EXCEPT !.logged_in = (outcome = "logged_in")]
         IN  IF f.op # "search" THEN [f1 EXCEPT !.pc = "client"]
             ELSE IF ~f1.logged_in /\ cookie = <<>> /\ f.headless
             THEN Return(f1, Failure(f, NoCookiesError))
             ELSE StartKeywords(f1, save_ok)

\* The cookie the adapter reads after the session, and the cache with it.
ReadsCookie(f, outcome) == f.op = "search" /\ outcome = "logged_out"

CookiesRead(f, outcome) ==
    IF ReadsCookie(f, outcome)
    THEN GetCookieResults(AllCookies(files, cache, f.adapter), FALSE, 0, TRUE)
    ELSE {<<>>}

\* _get_session of an adapter whose session manager is not looked into.
FC_Session(outcome) ==
    /\ fc.pc = "session"
    /\ \E cookie \in CookiesRead(fc, outcome), save_ok \in BOOLEAN :
          fc' = AfterSession(fc, outcome, cookie, save_ok)
    /\ cache' = IF ReadsCookie(fc, outcome)
                THEN CacheAfterGetAll(files, cache, fc.adapter) ELSE cache
    /\ UNCHANGED <<files, out, poll>>
    /\ SessionsIdle

\* "async with async_playwright() as p", launch, new_context and new_page
\* of an adapter without a session.
FC_Launch(ok) ==
    /\ fc.pc = "launch"
    /\ fc' = IF ~ok THEN Outermost(fc, "browser not launched")
             ELSE IF fc.op = "search"
             THEN [fc EXCEPT !.pc = "page", !.kw = 1, !.page = 1]
             ELSE [fc EXCEPT !.pc = "client"]
    /\ UNCHANGED <<files, cache, out, poll>>
    /\ SessionsIdle

\* Items one keyword's single request adds to results in an adapter
\* without a session: the slice [:limit // len(keyword_list)], except in
\* bilibili, which passes the number to the client as page_size.
Appends(f, resp) ==
    IF resp.kind # "page" THEN 0
    ELSE IF f.adapter = "bilibili" THEN resp.items
    ELSE Min(resp.items, PerKeyword(f))

\* A search request of the client is answered, and the operation runs on
\* to its next await.
FC_Page(resp, save_ok) ==
    /\ fc.pc = "page"
    /\ IF fc.adapter \in SessionAdapters
       THEN LET got == fc.keyword_results
                           \o Entries(fc.kw, Len(fc.keyword_results),
                                      Collects(fc, resp))
                f1 == [fc EXCEPT !.keyword_results = got,
                                 !.client_called = TRUE,
                                 !.failed = IF resp.kind = "raise"
                                            THEN @ \cup {fc.kw} ELSE @]
            IN  fc' = IF Continues(fc, resp, Len(got))
                      THEN [f1 EXCEPT !.page = NextPage(@)]
                      ELSE EndKeyword(f1, save_ok)
       ELSE LET f1 == [fc EXCEPT !.results = @ \o Entries(fc.kw, 0, Appends(fc, resp)),
                                 !.client_called = TRUE,
                                 !.failed = IF resp.kind # "page"
                                            THEN @ \cup {fc.kw} ELSE @]
            IN  fc' = IF fc.kw < fc.nkw THEN [f1 EXCEPT !.kw = @ + 1]
                      ELSE [f1 EXCEPT !.pc = "close"]
    /\ UNCHANGED <<files, cache, out, poll>>
    /\ SessionsIdle

\* What a detail, comments or profile operation returns once the client has
\* answered: the comments collected (data=comments[:limit], "total":
\* len(comments); id stands for the note_id, video_id, ... entry of the
\* metadata), the record, or "not found".
Answer(f) ==
    IF f.op = "comments"
    THEN ToolResult(TRUE, Prefix(f.results, f.limit), "none",
                    [total |-> Len(f.results), id |-> "id",
                     platform |-> f.adapter])
    ELSE IF f.found
    THEN ToolResult(TRUE, <<0>>, "none", [platform |-> f.adapter])
    ELSE Failure(f, "not found")

\* The client request of a detail or profile operation is answered (the
\* record, nothing, or an exception).
FC_Client(outcome) ==
    /\ fc.pc = "client"
    /\ fc.op # "comments"
    /\ LET f1 == [fc EXCEPT !.client_called = TRUE, !.found = (outcome = "data")]
       IN  fc' = IF outcome = "raise" THEN Outermost(f1, "client request failed")
                 ELSE IF fc.adapter \in SessionAdapters THEN Return(f1, Answer(f1))
                 ELSE [f1 EXCEPT !.pc = "close"]
    /\ UNCHANGED <<files, cache, out, poll>>
    /\ SessionsIdle

\* A comments request of the client is answered: it raises, returns None
\* (nothing usable; bilibili: the video has no aid and no request is made),
\* or returns n comments. xhs, douyin and kuaishou ask page after page
\* "while len(comments) < limit", append every comment of a page and stop
\* when the page says there is no more (has_more, pcursor); the others make
\* one request and take result[:limit], which raises on None.
FC_Comments(kind, n, has_more) ==
    /\ fc.pc = "client"
    /\ fc.op = "comments"
    /\ LET paged == fc.adapter \in {"xhs", "douyin", "kuaishou"}
           taken == IF kind # "page" THEN 0
                    ELSE IF paged THEN n ELSE Min(n, fc.limit)
           f1 == [fc EXCEPT !.results = @ \o Entries(0, Len(@), taken),
                            !.client_called = TRUE,
                            !.found = (kind = "page")]
       IN  fc' = IF kind = "raise" \/ (kind = "none" /\ ~paged
                                              /\ fc.adapter # "bilibili")
                 THEN Outermost(f1, "client request failed")
                 ELSE IF paged /\ kind = "page" /\ has_more
                            /\ Len(f1.results) < fc.limit
                 THEN f1
                 ELSE IF fc.adapter \in SessionAdapters THEN Return(f1, Answer(f1))
                 ELSE [f1 EXCEPT !.pc = "close"]
    /\ UNCHANGED <<files, cache, out, poll>>
    /\ SessionsIdle

\* "await browser.close()" of an adapter without a session, and its return.
FC_Close(ok) ==
    /\ fc.pc = "close"
    /\ fc' = IF ~ok THEN Outermost(fc, "browser not closed")
             ELSE IF fc.op = "search"
             THEN Return(fc, ToolResult(TRUE, Prefix(fc.results, fc.limit), "none",
                                        [total |-> Len(fc.results),
                                         keywords |-> fc.nkw,
                                         platform |-> fc.adapter]))
             ELSE Return(fc, Answer(fc))
    /\ UNCHANGED <<files, cache, out, poll>>
    /\ SessionsIdle

\* The caller has the ToolResult; the adapter is free for its next call.
FC_Done ==
    /\ fc.pc = "done"
    /\ fc' = NoFc
    /\ UNCHANGED <<files, cache, out, poll>>
    /\ SessionsIdle

ClientOutcomes == {"data", "none", "raise"}
SessionOutcomes == {"raise", "logged_in", "logged_out"}

\* Every operation of every adapter, under every behaviour of the session
\* manager, the browser, the client and the result sink.
NextSearch ==
    \/ \E a \in Adapters, h \in BOOLEAN, s \in BOOLEAN, n \in Limits,
          k \in KeywordCounts : FC_Call(a, "search", h, s, n, k, TRUE)
    \/ \E a \in Adapters, op \in Ops \ {"search"}, h \in BOOLEAN, ok \in BOOLEAN :
          FC_Call(a, op, h, FALSE, 1, 1, ok)
    \/ \E o \in SessionOutcomes : FC_Session(o)
    \/ \E ok \in BOOLEAN : FC_Launch(ok)
    \/ \E resp \in Responses(fc.adapter), ok \in BOOLEAN : FC_Page(resp, ok)
    \/ \E o \in ClientOutcomes : FC_Client(o)
    \/ \E kind \in {"raise", "none", "page"}, n \in 0..MaxItems, m \in BOOLEAN :
          FC_Comments(kind, n, m)
    \/ \E ok \in BOOLEAN : FC_Close(ok)
    \/ FC_Done

SpecSearch == Init /\ [][NextSearch]_vars

\* The searches of the adapters that page through a keyword's results. The
\* event loop resumes the operation whenever the request it awaits is
\* answered, whatever the answer.
NextPaging ==
    \/ \E a \in SessionAdapters, h \in BOOLEAN, n \in Limits, k \in KeywordCounts :
          FC_Call(a, "search", h, FALSE, n, k, TRUE)
    \/ \E o \in SessionOutcomes : FC_Session(o)
    \/ \E resp \in Responses(fc.adapter), ok \in BOOLEAN : FC_Page(resp, ok)
    \/ FC_Done

SpecPaging == Init /\ [][NextPaging]_vars /\ WF_vars(NextPaging)

\* _get_session of an adapter: get_browser_session(platform, headless) is
\* called; the session manager runs it as the call of task t1.
FC_GetSession ==
    /\ fc.pc = "session"
    /\ ret["t1"].kind = "none"
    /\ CallGetSession("t1", fc.adapter, fc.headless, FALSE)

\* What _get_session gave the adapter.
SessionOutcome(r) ==
    IF r.kind = "raise" THEN "raise"
    ELSE IF objs[r.id].is_logged_in THEN "logged_in" ELSE "logged_out"

\* get_browser_session has returned or raised, and the operation runs on.
FC_SessionReturned ==
    /\ fc.pc = "session"
    /\ pc["t1"] = "idle"
    /\ ret["t1"].kind \in {"session", "raise"}
    /\ LET outcome == SessionOutcome(ret["t1"])
       IN  /\ \E cookie \in CookiesRead(fc, outcome), save_ok \in BOOLEAN :
                 fc' = AfterSession(fc, outcome, cookie, save_ok)
           /\ cache' = IF ReadsCookie(fc, outcome)
                       THEN CacheAfterGetAll(files, cache, fc.adapter) ELSE cache
    /\ ret' = [ret EXCEPT !["t1"] = NoRet]
    /\ UNCHANGED <<sessions, locks, pc, call, local, objs, files, out, poll>>

\* cleanup() of the adapter, between two operations: the browser context of
\* self._crawler is closed when there is one (errors swallowed) and
\* _initialized is reset; the session manager is not called.
FC_Cleanup ==
    /\ fc.pc = "idle"
    /\ ~fc.cleaned
    /\ fc' = [fc EXCEPT !.cleaned = TRUE]
    /\ UNCHANGED <<files, cache, out, poll>>
    /\ SessionsIdle

\* Searches of the xhs adapter, one after another, on the sessions of the
\* session manager.
NextFacade ==
    \/ \E h \in BOOLEAN, s \in BOOLEAN : FC_Call("xhs", "search", h, s, 1, 1, TRUE)
    \/ FC_GetSession
    \/ GS_Probe("t1")
    \/ CU_Close("t1")
    \/ CU_Stop("t1")
    \/ CS_Launch("t1")
    \/ CS_Nav("t1")
    \/ CS_Pong("t1")
    \/ CS_Login("t1")
    \/ CS_Final("t1")
    \/ FC_SessionReturned
    \/ \E resp \in Responses(fc.adapter), ok \in BOOLEAN : FC_Page(resp, ok)
    \/ FC_Done
    \/ FC_Cleanup

SpecFacade == Init /\ [][NextFacade]_vars

\* ----------------------------------------------- tools/manual_douyin_login
\* max_wait, and the 2 of "range(max_wait // 2)" and "asyncio.sleep(2)".
max_wait == 600
poll_interval == 2

\* What "await context.cookies()" can return.
ContextCookies ==
    {<<>>,
     <<[name |-> "LOGIN_STATUS", value |-> "0"]>>,
     <<[name |-> "sid", value |-> "x"], [name |-> "LOGIN_STATUS", value |-> "1"]>>}

\* cookie_dict.get("LOGIN_STATUS") == "1"
HasLoginCookie(cookies) ==
    \E k \in 1..Len(cookies) :
       /\ cookies[k].name = "LOGIN_STATUS"
       /\ cookies[k].value = "1"
       /\ \A j \in (k + 1)..Len(cookies) : cookies[j].name # "LOGIN_STATUS"

\* What "await page.evaluate(...)" and the test of HasUserLogin come to:
\* the flag is "1", it is not, or an exception.
EvaluateOutcomes == {"1", "0", "raise"}

\* cookie_str of the backup: name=value; for every cookie.
RECURSIVE BackupCookieStr(_)
BackupCookieStr(cookies) ==
    IF cookies = <<>> THEN <<>>
    ELSE <<Head(cookies).name, "=", Head(cookies).value, ";">>
         \o BackupCookieStr(Tail(cookies))

\* The text written to ./cookies/douyin_cookies.txt.
BackupFile(cookies) ==
    FileOf(<<"#", " Auto-saved by manual_douyin_login.py", NL>>
           \o BackupCookieStr(cookies))

\* Mutant: the loop has no ceiling.
Iterate_unbounded(p, i) ==
    [p EXCEPT !.pc = "cookies", !.i = i, !.is_login_cookie = FALSE,
              !.is_login_local = FALSE, !.evaluated = "none"]

\* "for i in range(max_wait // 2)": iteration i begins, or the loop is
\* exhausted and "if not logged_in" closes the context.
Iterate(p, i) ==
    IF i < max_wait \div poll_interval
    THEN [p EXCEPT !.pc = "cookies", !.i = i, !.is_login_cookie = FALSE,
                   !.is_login_local = FALSE, !.evaluated = "none"]
    ELSE [p EXCEPT !.pc = "closing"]

\* Mutant: an exception of page.evaluate leaves the loop.
AfterEvaluate_propagating(p, outcome) ==
    LET p1 == [p EXCEPT !.is_login_local = (outcome = "1"),
                        !.evaluated = outcome, !.checks = @ + 1]
    IN  IF outcome = "raise" THEN [p1 EXCEPT !.pc = "raised"]
        ELSE IF p.is_login_cookie \/ p1.is_login_local
        THEN [p1 EXCEPT !.logged_in = TRUE, !.pc = "backup"]
        ELSE [p1 EXCEPT !.pc = "sleep"]

\* The rest of an iteration once page.evaluate has ended: "try: ... except:
\* pass", then "if is_login_cookie or is_login_local: ... break".
AfterEvaluate(p, outcome) ==
    LET p1 == [p EXCEPT !.is_login_local = (outcome = "1"),
                        !.evaluated = outcome, !.checks = @ + 1]
    IN  IF p.is_login_cookie \/ p1.is_login_local
        THEN [p1 EXCEPT !.logged_in = TRUE, !.pc = "backup"]
        ELSE [p1 EXCEPT !.pc = "sleep"]

\* Neither the session manager, nor the cookie manager, nor an adapter runs.
OnlyPolling ==
    /\ SessionsIdle
    /\ UNCHANGED <<cache, out, fc>>

\* launch_persistent_context and page.goto, up to the first iteration.
ML_Start(ok) ==
    /\ poll.pc = "start"
    /\ poll' = IF ok THEN Iterate(poll, 0) ELSE [poll EXCEPT !.pc = "raised"]
    /\ UNCHANGED files
    /\ OnlyPolling

\* "cookies = await context.cookies()" and the cookie signal.
ML_Cookies(cookies, ok) ==
    /\ poll.pc = "cookies"
    /\ poll' = IF ok
               THEN [poll EXCEPT !.pc = "evaluate",
                                 !.is_login_cookie = HasLoginCookie(cookies)]
               ELSE [poll EXCEPT !.pc = "raised"]
    /\ UNCHANGED files
    /\ OnlyPolling

\* "ls = await page.evaluate(...)", the local-storage signal, the decision.
ML_Evaluate(outcome) ==
    /\ poll.pc = "evaluate"
    /\ poll' = AfterEvaluate(poll, outcome)
    /\ UNCHANGED files
    /\ OnlyPolling

\* "await asyncio.sleep(2)" and the next turn of the loop.
ML_Sleep ==
    /\ poll.pc = "sleep"
    /\ poll' = Iterate([poll EXCEPT !.sleeps = @ + 1], poll.i + 1)
    /\ UNCHANGED files
    /\ OnlyPolling

\* "await context.close(); return" after the loop ran out.
ML_TimeoutClose(ok) ==
    /\ poll.pc = "closing"
    /\ poll' = IF ok THEN [poll EXCEPT !.pc = "done", !.context_closed = TRUE]
               ELSE [poll EXCEPT !.pc = "raised"]
    /\ UNCHANGED files
    /\ OnlyPolling

\* The backup of the cookies (inside try/except: a failure is printed), the
\* sleep of 3 seconds and context.close().
ML_Backup(cookies, ok) ==
    /\ poll.pc = "backup"
    /\ poll' = [poll EXCEPT !.pc = "done", !.context_closed = TRUE,
                            !.file_written = ok]
    /\ files' = IF ok
                THEN [files EXCEPT ![CookieFileName("douyin")] = BackupFile(cookies)]
                ELSE files
    /\ OnlyPolling

NextPoll ==
    \/ \E ok \in BOOLEAN : ML_Start(ok)
    \/ \E c \in ContextCookies, ok \in BOOLEAN : ML_Cookies(c, ok)
    \/ \E o \in EvaluateOutcomes : ML_Evaluate(o)
    \/ ML_Sleep
    \/ \E ok \in BOOLEAN : ML_TimeoutClose(ok)
    \/ \E c \in ContextCookies, ok \in BOOLEAN : ML_Backup(c, ok)

SpecPoll == Init /\ [][NextPoll]_vars

\* ------------------------------------------------------------------ claims
\* Task t is inside "async with self._get_lock(platform)".
CriticalPcs == {"gs_probe", "cu_close", "cu_stop", "cs_launch", "cs_nav",
                "cs_pong", "cs_login", "cs_final"}
InCS(t) == pc[t] \in CriticalPcs

\* This step is task t's get_session returning a session.
ReturnsSession(t) ==
    /\ call[t].op = "get_session"
    /\ pc[t] # "idle"
    /\ pc'[t] = "idle"
    /\ ret'[t].kind = "session"

\* This step is task t's get_session raising.
RaisesFromGetSession(t) ==
    /\ call[t].op = "get_session"
    /\ pc[t] # "idle"
    /\ pc'[t] = "idle"
    /\ ret'[t].kind = "raise"

\* C1: when two get_session(P) calls without force_new are started
\* concurrently while no session is retained for P, and no liveness probe
\* fails, the call that returns second returns the very session the first one
\* returned, and only the first one launched a browser.
C1_OneLaunchForConcurrentCalls ==
    [][\A t \in Tasks :
          (ReturnsSession(t) /\ local[t].fresh /\ local[t].probe # "fail")
          => \A u \in local[t].peers :
                (/\ ret[u].kind = "session"
                 /\ ret[u].fresh
                 /\ ~ret[u].probe_failed
                 /\ objs[ret[u].id].platform = local[t].cur)
                => /\ ret'[t].id = ret[u].id
                   /\ ret[u].launched
                   /\ local[t].sid = 0
                   /\ Launched(objs', local[t].cur) = Launched(objs, local[t].cur)]_vars

\* Both callers of a concurrent pair hold the same session, launched once.
C1_Witness ==
    \E t \in Tasks, u \in Tasks :
       /\ t # u
       /\ ret[t].kind = "session" /\ ret[u].kind = "session"
       /\ ret[t].fresh /\ ret[u].fresh
       /\ ret[t].id = ret[u].id
       /\ ret[u].launched /\ ~ret[t].launched
       /\ Launched(objs, objs[ret[t].id].platform) = 1

\* C2: a get_session(P) call without force_new that finds a session retained
\* for P, and whose liveness probe does not fail, returns that very session,
\* launches no browser and leaves P's registry entry as it was; so two such
\* calls in a row return the same session.
C2_ReuseReturnsRetained ==
    [][\A t \in Tasks :
          (/\ ReturnsSession(t)
           /\ ~call[t].force_new
           /\ local[t].prev # 0
           /\ local[t].probe # "fail")
          => /\ ret'[t].id = local[t].prev
             /\ local[t].sid = 0
             /\ objs' = objs
             /\ sessions' = sessions
             /\ SessionOf(sessions', local[t].cur) = local[t].prev]_vars

\* Two calls have returned the same retained session, neither launched
\* anything.
C2_Witness ==
    \E t \in Tasks, u \in Tasks :
       /\ t # u
       /\ ret[t].kind = "session" /\ ret[u].kind = "session"
       /\ ret[t].id = ret[u].id
       /\ ~ret[t].force_new /\ ~ret[t].fresh
       /\ ~ret[t].launched /\ ~ret[t].probe_failed
       /\ ~ret[u].force_new /\ ~ret[u].fresh
       /\ ~ret[u].launched /\ ~ret[u].probe_failed
       /\ SessionOf(sessions, objs[ret[t].id].platform) = ret[t].id

\* C3: a get_session(P, force_new=true) call that returns returns a session
\* it created itself (a browser launched by this call, no BrowserSession
\* before), different from the one retained when it entered, and that session
\* is the one retained for P when it returns.
C3_ForceNewReplaces ==
    [][\A t \in Tasks :
          (ReturnsSession(t) /\ call[t].force_new)
          => /\ local[t].sid # 0
             /\ ret'[t].id = local[t].sid
             /\ ret'[t].id # local[t].prev
             /\ ~objs[ret'[t].id].session
             /\ objs'[ret'[t].id].session
             /\ SessionOf(sessions', local[t].cur) = ret'[t].id]_vars

\* A force_new call has replaced a retained session.
C3_Witness ==
    \E t \in Tasks :
       /\ ret[t].kind = "session"
       /\ ret[t].force_new /\ ret[t].launched
       /\ ret[t].id > 1
       /\ \E i \in 1..(ret[t].id - 1) :
             /\ objs[i].platform = objs[ret[t].id].platform
             /\ objs[i].session
             /\ objs[i].closeCalls = 0
       /\ SessionOf(sessions, objs[ret[t].id].platform) = ret[t].id

\* C4 (as the specification states it): whenever get_session returns a
\* session other than the one retained when it entered, the browser and the
\* playwright instance of the displaced session have been closed.
C4_DisplacedSessionClosed ==
    [][\A t \in Tasks :
          (/\ ReturnsSession(t)
           /\ local[t].prev # 0
           /\ ret'[t].id # local[t].prev)
          => /\ objs'[local[t].prev].closeCalls > 0
             /\ objs'[local[t].prev].stopCalls > 0]_vars

\* Creation steps of get_session, after any cleanup.
CreatePcs == {"cs_launch", "cs_nav", "cs_pong", "cs_login", "cs_final"}

\* C5: when the liveness probe of the retained session has raised (force_new
\* false), the retained session's browser and playwright have been closed and
\* its registry entry removed while the new session is created, and the call
\* returns a session it launched itself, which is the one retained then.
C5_FailedProbeRecreates ==
    [][/\ \A t \in Tasks :
             (pc[t] \in CreatePcs /\ local[t].probe = "fail")
             => /\ local[t].prev # 0
                /\ ~call[t].force_new
                /\ objs[local[t].prev].closeCalls = 1
                /\ objs[local[t].prev].stopCalls = 1
                /\ ~HasSession(sessions, local[t].cur)
       /\ \A t \in Tasks :
             (ReturnsSession(t) /\ local[t].probe = "fail")
             => /\ local[t].sid # 0
                /\ local[t].sid # local[t].prev
                /\ ret'[t].id = local[t].sid
                /\ SessionOf(sessions', local[t].cur) = local[t].sid]_vars

\* A call whose probe failed has returned the session it created instead.
C5_Witness ==
    \E t \in Tasks :
       /\ ret[t].kind = "session"
       /\ ret[t].probe_failed /\ ret[t].launched /\ ~ret[t].force_new
       /\ SessionOf(sessions, objs[ret[t].id].platform) = ret[t].id
       /\ \E i \in 1..Len(objs) :
             /\ i # ret[t].id
             /\ objs[i].platform = objs[ret[t].id].platform
             /\ objs[i].closeCalls = 1 /\ objs[i].stopCalls = 1

\* Task t waits for the lock of its platform.
Waiting(t) == pc[t] \in {"gs_lock", "cl_lock"}

\* C6: at most one critical section per platform is active at a time, and a
\* call waits for a lock only while another call for the same platform is in
\* its critical section or waits too (or it has been woken and can go on): a
\* call suspended in the critical section of platform P holds up no call for
\* Q # P.
C6_PerPlatformLocks ==
    /\ \A t \in Tasks, u \in Tasks :
          (t # u /\ InCS(t) /\ InCS(u)) => local[t].cur # local[u].cur
    /\ \A t \in Tasks :
          Waiting(t)
          => \/ Woken(locks, local[t].cur, t)
             \/ \E u \in Tasks \ {t} :
                   /\ InCS(u) \/ Waiting(u)
                   /\ local[u].cur = local[t].cur
    /\ \A t \in Tasks :
          InCS(t) => locks[local[t].cur].holder = t

\* A call for weibo has launched its browser and returned its session, all
\* while a call for xhs stayed suspended inside its critical section.
C6_Witness ==
    \E t \in Tasks, u \in Tasks :
       /\ pc[t] = "cs_pong" /\ local[t].cur = "xhs" /\ local[t].sid = 1
       /\ ret[u].kind = "session" /\ ret[u].id = 2
       /\ objs[2].platform = "weibo"

\* C7 (as the specification states it): a get_session without force_new that
\* finds an unauthenticated session retained runs the login check again
\* before it returns.
C7_UnauthenticatedRetried ==
    [][\A t \in Tasks :
          (/\ ReturnsSession(t)
           /\ ~call[t].force_new
           /\ local[t].prev # 0
           /\ ~objs[local[t].prev].is_logged_in)
          => local[t].pong # "none"]_vars

\* C8 (as the specification states it): get_session does not raise when the
\* interactive login ends, and the session it returns is logged in only if
\* the probe succeeded or the interactive login was confirmed.
C8_NoRaiseAndFalseOnFailedLogin ==
    [][\A t \in Tasks :
          /\ (pc[t] = "cs_login" /\ pc'[t] = "idle") => ret'[t].kind # "raise"
          /\ (ReturnsSession(t) /\ objs'[ret'[t].id].is_logged_in)
             => (local[t].pong = "ok" \/ local[t].login = "confirmed")]_vars

\* C9: for xhs, weibo and douyin, a failed probe under headless leaves the
\* setup with is_logged_in false and no interactive login started; the
\* interactive login is started only after a failed probe with headless
\* false, and at most once in a get_session call.
C9_HeadlessNeverLogsIn ==
    [][/\ \A t \in Tasks :
             call[t].op = "get_session"
             => /\ local[t].logins <= 1
                /\ (local[t].logins = 1 \/ pc[t] = "cs_login" \/ local[t].login # "none")
                   => /\ local[t].pong = "fail"
                      /\ ~call[t].headless
                      /\ local[t].cur \in SupportedPlatforms
                /\ (local[t].pong = "fail" /\ call[t].headless)
                   => /\ pc[t] = "cs_final"
                      /\ ~local[t].is_logged_in
                      /\ local[t].logins = 0
                      /\ local[t].login = "none"
       /\ \A t \in Tasks :
             (ReturnsSession(t) /\ local[t].pong = "fail" /\ call[t].headless)
             => ~objs'[ret'[t].id].is_logged_in]_vars

\* A headless weibo setup whose probe failed is about to return logged out.
C9_Witness ==
    \E t \in Tasks :
       /\ pc[t] = "cs_final"
       /\ local[t].cur = "weibo"
       /\ call[t].headless
       /\ local[t].pong = "fail"
       /\ ~local[t].is_logged_in
       /\ local[t].logins = 0

\* This step ends task t's get_session while is_logged_in is false: it
\* returns an unauthenticated session, or raises before the login check
\* succeeded.
EndsLoggedOut(t) ==
    /\ ReturnsSession(t) \/ RaisesFromGetSession(t)
    /\ ~local[t].is_logged_in

\* C10 (as the specification states it): when get_session returns a session
\* with is_logged_in false, or raises, the platform's cookie file and cache
\* entry are as they were when the call began.
C10_FileAndCacheUntouched ==
    [][\A t \in Tasks :
          ((ReturnsSession(t) /\ ~objs'[ret'[t].id].is_logged_in)
              \/ RaisesFromGetSession(t))
          => /\ files'[CookieFileName(local[t].cur)] = local[t].file0
             /\ cache'[Lower(local[t].cur)] = local[t].cache0]_vars

\* C10 (amended): a step writes a cookie file only for a call whose
\* is_logged_in is true; when get_session ends with is_logged_in false the
\* platform's cookie file is as it was when the call began, and the cache
\* entry is as it was or holds the records of that file.
C10_SavedOnlyWhenLoggedIn ==
    [][/\ files' # files
          => \E t \in Tasks : pc'[t] = "cs_final" /\ local'[t].is_logged_in
       /\ \A t \in Tasks :
             EndsLoggedOut(t)
             => /\ files'[CookieFileName(local[t].cur)] = local[t].file0
                /\ \/ cache'[Lower(local[t].cur)] = local[t].cache0
                   \/ cache'[Lower(local[t].cur)]
                         = Cached(load_cookies_from_file(local[t].file0))]_vars

\* An unauthenticated session has been returned; the file still holds its
\* two records and the cache, empty before, now holds them.
C10_Witness ==
    \E t \in Tasks :
       /\ ret[t].kind = "session"
       /\ ~objs[ret[t].id].is_logged_in
       /\ cache[objs[ret[t].id].platform].loaded
       /\ Len(cache[objs[ret[t].id].platform].cookies) = 2
       /\ files[CookieFileName(objs[ret[t].id].platform)]
             \in InitFiles \ {NoFile}

\* C11: when get_session(P) raises (browser launch, navigation, client setup
\* or a later step of the creation), the registry is left as the step found
\* it, the browser this call launched is not in it, and P has an entry then
\* only if it is the session retained when the call entered, never probed as
\* dead.
C11_FailedCreationNotRetained ==
    [][\A t \in Tasks :
          RaisesFromGetSession(t)
          => /\ sessions' = sessions
             /\ \A i \in 1..Len(sessions') : sessions'[i].id # local[t].sid
             /\ HasSession(sessions', local[t].cur)
                => /\ local[t].prev # 0
                   /\ local[t].probe # "fail"
                   /\ SessionOf(sessions', local[t].cur) = local[t].prev]_vars

\* A force_new call has launched a second browser and raised: the earlier
\* session is still the one retained, the new browser never became one.
C11_Witness ==
    \E t \in Tasks :
       /\ ret[t].kind = "raise"
       /\ \A u \in Tasks : pc[u] = "idle"
       /\ Len(objs) = 2
       /\ objs[1].platform = objs[2].platform
       /\ objs[1].session /\ ~objs[2].session
       /\ sessions = <<[platform |-> objs[1].platform, id |-> 1]>>

\* The two closing operations.
CloseOps == {"close_session", "close_all"}

\* C12: close_session and close_all never end with an exception; after
\* browser.close(), raising or not, playwright.stop() is still awaited, and
\* after it, raising or not, the platform has no registry entry and both close
\* steps have been made on its session; a closing call enters the cleanup
\* only for a platform that has a session, and the steps by which it starts,
\* takes a lock or ends without cleanup change nothing.
C12_CloseSwallowsErrors ==
    [][\A t \in Tasks :
          /\ (call[t].op \in CloseOps /\ pc[t] # "idle" /\ pc'[t] = "idle")
             => ret'[t].kind = "done"
          /\ (pc[t] = "cu_close" /\ pc'[t] # "cu_close")
             => pc'[t] = "cu_stop"
          /\ (call[t].op \in CloseOps /\ pc[t] = "cu_stop" /\ pc'[t] # "cu_stop")
             => /\ ~HasSession(sessions', local[t].cur)
                /\ objs'[local[t].prev].closeCalls >= 1
                /\ objs'[local[t].prev].stopCalls >= 1
          /\ (pc[t] # "cu_close" /\ pc'[t] = "cu_close")
             => HasSession(sessions', local'[t].cur)
          /\ (/\ pc[t] \in {"idle", "cl_lock"}
              /\ pc'[t] # pc[t] \/ ret'[t] # ret[t]
              /\ \/ call[t].op \in CloseOps
                 \/ call'[t].op \in CloseOps
                 \/ ret'[t].kind = "done")
             => /\ sessions' = sessions
                /\ objs' = objs
                /\ files' = files
                /\ cache' = cache]_vars

\* A closing call has ended normally although browser.close() and
\* playwright.stop() both raised; the session is gone from the registry.
C12_Witness ==
    \E t \in Tasks :
       /\ ret[t].kind = "done"
       /\ ret[t].swallowed = 2
       /\ sessions = <<>>
       /\ Len(objs) = 1
       /\ objs[1].session
       /\ objs[1].closeCalls = 1 /\ objs[1].stopCalls = 1

\* C13 (as the specification states it): a get_session for a platform
\* _setup_client_and_login has no client for is rejected before any session
\* work: the call has launched no browser and read no cookie when it raises.
C13_UnsupportedRejectedFirst ==
    [][\A t \in Tasks :
          (RaisesFromGetSession(t) /\ local[t].cur \notin SupportedPlatforms)
          => /\ local[t].sid = 0
             /\ Len(objs') = Len(objs)
             /\ cache'[Lower(local[t].cur)] = local[t].cache0]_vars

\* The platform's cookie file and its loaded records, before a step.
FileOfCall(o) == files[CookieFileName(o.platform)]
RecordsOfCall(o) == load_cookies_from_file(files[CookieFileName(o.platform)])

\* This step is a direct save_cookie call that returned True.
SavesOk == out'.op = "save_cookie" /\ out'.n = out.n + 1 /\ out'.ok

\* C14 (as the specification states it): get_cookie(P, account_index=0,
\* random_select=False) right after a save_cookie(P, s) that returned True,
\* s not empty, returns s.strip().
C14_SaveThenGetRoundTrip ==
    [][(/\ out.op = "save_cookie" /\ out.ok
        /\ out.cookie_str # <<>>
        /\ out.account_index = 0
        /\ out'.op = "get_cookie" /\ out'.n = out.n + 1
        /\ out'.platform = out.platform
        /\ out'.has_index /\ out'.account_index = 0 /\ ~out'.random_select)
       => out'.cookie = Strip(out.cookie_str)]_vars

\* After the step, the i-th record (0-based) of the call's file is s.strip().
RecordIs(o, fs) ==
    LET recs == load_cookies_from_file(fs[CookieFileName(o.platform)])
    IN  /\ o.account_index < Len(recs)
        /\ recs[o.account_index + 1] = Strip(o.cookie_str)

\* C15 (as the specification states it): a second save_cookie(P, s, i) with
\* the arguments of the one before, both returning True, leaves the file as
\* the first left it.
C15_SaveTwiceIsSaveOnce ==
    [][(SavesOk /\ out'.repeated /\ out.ok) => files' = files]_vars

\* s.strip() is one line that counts as a record.
IsRecord(cookie_str) ==
    /\ ~HasChar(Strip(cookie_str), NL)
    /\ IsCookieLine(Strip(cookie_str))

\* C15 (amended): a second save_cookie(P, s, i) with the arguments of the one
\* before, both returning True, leaves the file as the first left it whenever
\* the first left s.strip() as the record at index i; and a successful
\* save_cookie of a string that is one record line replaces the record at
\* index i if there is one, else appends the string as a new last record,
\* the other records staying as they are.
C15_SaveOverwritesOrAppends ==
    [][/\ (SavesOk /\ out'.repeated /\ out.ok /\ RecordIs(out', files))
          => /\ files' = files
             /\ ~out'.changed
       /\ (SavesOk /\ IsRecord(out'.cookie_str))
          => LET before == RecordsOfCall(out')
                 after == load_cookies_from_file(files'[CookieFileName(out'.platform)])
                 i == out'.account_index
             IN  IF i < Len(before)
                 THEN after = [before EXCEPT ![i + 1] = Strip(out'.cookie_str)]
                 ELSE after = Append(before, Strip(out'.cookie_str))]_vars

\* A save has been repeated with the same arguments at index 1 of a file
\* that had one record before the first: the repetition changed nothing.
C15_Witness ==
    /\ out.op = "save_cookie" /\ out.ok /\ out.repeated /\ ~out.changed
    /\ out.account_index = 1
    /\ out.n = 2
    /\ Len(load_cookies_from_file(files[CookieFileName(out.platform)])) = 2

\* Every character of the string is white space (the empty string too).
AllWhitespace(cookie_str) ==
    \A k \in 1..Len(cookie_str) : cookie_str[k] \in Whitespace

\* text holds sub as a run of consecutive characters.
Contains(text, sub) ==
    \E k \in 0..(Len(text) - Len(sub)) : SubSeq(text, k + 1, k + Len(sub)) = sub

\* C16: save_cookie returns False for an empty or whitespace-only string,
\* leaving the file and the cache as they are, and False when a file operation
\* fails; when it returns True the file exists, holds s.strip() followed by a
\* newline, and the platform is not in the cache.
C16_SaveReturnsFalseOnBadInput ==
    [][(out'.op = "save_cookie" /\ out'.n = out.n + 1)
       => /\ AllWhitespace(out'.cookie_str)
             => (~out'.ok /\ files' = files /\ cache' = cache)
          /\ ~out'.io_ok => ~out'.ok
          /\ (~AllWhitespace(out'.cookie_str) /\ out'.io_ok) => out'.ok
          /\ out'.ok
             => /\ files'[CookieFileName(out'.platform)].exists
                /\ Contains(files'[CookieFileName(out'.platform)].text,
                            Strip(out'.cookie_str) \o <<NL>>)
                /\ ~cache'[Lower(out'.platform)].loaded]_vars

\* save_cookie has returned False for a string of one blank.
C16_Witness ==
    /\ out.op = "save_cookie"
    /\ out.cookie_str = <<" ">>
    /\ out.io_ok
    /\ ~out.ok /\ ~out.changed

\* The cache entry of a platform name holds the records of its file, if it
\* holds anything.
Consistent(platform, fs, ch) ==
    ch[Lower(platform)].loaded
    => ch[Lower(platform)].cookies
          = load_cookies_from_file(fs[CookieFileName(platform)])

\* This step is a direct call of one of the reading methods.
Reads ==
    /\ out'.op \in {"get_all_cookies", "get_cookie", "get_account_count"}
    /\ out'.n = out.n + 1

\* C17: a save_cookie(P, s) that returns True leaves P out of the cache; a
\* get_all_cookies(P) or save_cookie(P, s) call that finds P's cache entry in
\* step with P's file leaves it in step, and get_all_cookies(P) then returns
\* the records the file holds.
C17_SaveInvalidatesCache ==
    [][/\ SavesOk => ~cache'[Lower(out'.platform)].loaded
       /\ ((Reads \/ (out'.op = "save_cookie" /\ out'.n = out.n + 1))
              /\ Consistent(out'.platform, files, cache))
          => /\ Consistent(out'.platform, files', cache')
             /\ out'.op = "get_all_cookies"
                => out'.cookies
                      = load_cookies_from_file(files'[CookieFileName(out'.platform)])]_vars

\* A successful save has dropped a cache entry that was loaded, and the
\* file holds the saved record.
C17_Witness ==
    /\ out.op = "save_cookie" /\ out.ok /\ out.was_loaded
    /\ ~cache[Lower(out.platform)].loaded
    /\ RecordIs(out, files)

\* What a reading call returned, from the record list it worked on.
ReadReturned(o, records) ==
    CASE o.op = "get_all_cookies" -> o.cookies = records
      [] o.op = "get_account_count" -> o.count = Len(records)
      [] OTHER -> IF records = <<>> THEN o.cookie = <<>>
                  ELSE \E k \in 1..Len(records) : o.cookie = records[k]

\* C18: a read of a platform that is in the cache answers from the cached
\* list, whatever the file holds now, and leaves the cache as it is; a read
\* of a platform that is not in the cache loads the file and caches its
\* records; an edit from outside leaves the cache as it is; clear_cache
\* empties the cache, a successful save_cookie drops the platform's entry.
C18_CachedUntilCleared ==
    [][/\ Reads
          => IF cache[Lower(out'.platform)].loaded
             THEN /\ ReadReturned(out', cache[Lower(out'.platform)].cookies)
                  /\ cache' = cache
             ELSE /\ ReadReturned(out', RecordsOfCall(out'))
                  /\ cache'[Lower(out'.platform)] = Cached(RecordsOfCall(out'))
       /\ (out'.op = "external_edit" /\ files' # files) => cache' = cache
       /\ (out'.op = "clear_cache" /\ out'.n = out.n + 1)
          => \A k \in CacheKeys : ~cache'[k].loaded
       /\ SavesOk => ~cache'[Lower(out'.platform)].loaded]_vars

\* get_all_cookies has answered from the cache with records the file no
\* longer holds.
C18_Witness ==
    /\ out.op = "get_all_cookies"
    /\ out.was_loaded
    /\ out.cookies # load_cookies_from_file(files[CookieFileName(out.platform)])
    /\ files[CookieFileName(out.platform)] \in CookieFiles

\* The records of a file by the format: its lines stripped, those kept that
\* are not empty, do not start with "#" and hold "=", in file order.
RecordsByFormat(file) ==
    IF ~file.exists THEN <<>>
    ELSE LET lines == SplitLines(file.text)
             stripped == [k \in 1..Len(lines) |-> Strip(lines[k])]
         IN  SelectSeq(stripped,
                       LAMBDA x : x # <<>> /\ x[1] # "#" /\ HasChar(x, "="))

\* C19: get_all_cookies of a platform not in the cache returns the records
\* of the file by the format, and get_cookie with account index i returns
\* the i-th of them (0-based), or the empty string when there is none.
C19_RecordsAreTheCookieLines ==
    [][(Reads /\ ~cache[Lower(out'.platform)].loaded)
       => LET records == RecordsByFormat(FileOfCall(out'))
          IN  /\ out'.op = "get_all_cookies" => out'.cookies = records
              /\ (out'.op = "get_cookie" /\ out'.has_index)
                 => out'.cookie = IF out'.account_index < Len(records)
                                  THEN records[out'.account_index + 1]
                                  ELSE <<>>
              /\ \A k \in 1..Len(cache'[Lower(out'.platform)].cookies) :
                    LET r == cache'[Lower(out'.platform)].cookies[k]
                    IN  r # <<>> /\ r[1] # "#" /\ Strip(r) = r]_vars

\* get_all_cookies has returned the one record of the file that holds a
\* padded record, a comment with "=" in it and a line without "=".
C19_Witness ==
    /\ out.op = "get_all_cookies"
    /\ ~out.was_loaded
    /\ out.cookies = <<<<"b", "=", "2">>>>
    /\ Len(SplitLines(files[CookieFileName(out.platform)].text)) = 3

\* The name/value pair a segment of a cookie string stands for.
PairOf(segment) == KeyValue(Strip(segment))

\* The segments of a cookie string that hold "=".
PairSegments(cookie_str) ==
    LET segs == SplitOn(cookie_str, ";")
    IN  {segs[i] : i \in {j \in 1..Len(segs) : HasChar(segs[j], "=")}}

\* C20 (as the specification states it): parse_cookie_string returns, for
\* every segment that holds "=", the pair of its trimmed key (up to the first
\* "=") and trimmed value, and nothing for the other segments, and
\* format_cookies_for_playwright returns one cookie for each of these pairs.
C20_ParseKeepsEveryPair ==
    [][/\ out'.op = "parse_cookie_string"
          => /\ \A seg \in PairSegments(out'.cookie_str) :
                   \E i \in 1..Len(out'.pairs) : out'.pairs[i] = PairOf(seg)
             /\ \A i \in 1..Len(out'.pairs) :
                   \E seg \in PairSegments(out'.cookie_str) :
                      out'.pairs[i] = PairOf(seg)
       /\ out'.op = "format_cookies_for_playwright"
          => \A seg \in PairSegments(out'.cookie_str) :
                \E i \in 1..Len(out'.formatted) :
                   /\ out'.formatted[i].name = PairOf(seg).name
                   /\ out'.formatted[i].value = PairOf(seg).value]_vars

\* Number of items of data that are of keyword j.
Count(data, j) == Cardinality({i \in 1..Len(data) : data[i].keyword = j})

\* The operation has returned a successful search result.
SearchSucceeded ==
    /\ fc.pc = "done"
    /\ fc.op = "search"
    /\ fc.result.kind = "ToolResult"
    /\ fc.result.success

\* C21 (as the specification states it): the data a search returns has at
\* most limit items, and no keyword has more than limit // len(keyword_list)
\* items in it, for every adapter and every behaviour of the client.
C21_SearchWithinLimits ==
    SearchSucceeded
    => /\ Len(fc.result.data) <= fc.limit
       /\ \A j \in 1..fc.nkw : Count(fc.result.data, j) <= fc.limit \div fc.nkw

\* This step is a search request of the current keyword raising, in an
\* adapter that searches a keyword page after page.
KeywordFails ==
    /\ fc.pc = "page"
    /\ fc.adapter \in SessionAdapters
    /\ fc'.failed # fc.failed

\* C22: in xhs, weibo and douyin an exception of a keyword's search request
\* ends that keyword's loop only: what the keyword and the keywords before
\* it collected is kept, the next keyword is searched from its first page
\* with the same allotment, and after the last keyword the operation
\* returns a ToolResult whose data is everything collected.
C22_FailureEndsOnlyItsKeyword ==
    [][KeywordFails
       => LET kept == fc.results \o fc.keyword_results
          IN  /\ fc'.results = kept
              /\ fc'.limit = fc.limit /\ fc'.nkw = fc.nkw
              /\ IF fc.kw < fc.nkw
                 THEN /\ fc'.pc = "page"
                      /\ fc'.kw = fc.kw + 1
                      /\ fc'.page = 1
                      /\ fc'.keyword_results = <<>>
                 ELSE /\ fc'.pc = "done"
                      /\ fc'.result.kind = "ToolResult"
                      /\ fc'.exc = "none"
                         => fc'.result.success /\ fc'.result.data = kept]_vars

\* Keywords k1, k2, k3: k2 failed, k1 and k3 are in the result with their
\* full allotment.
C22_Witness ==
    /\ SearchSucceeded
    /\ fc.adapter \in SessionAdapters
    /\ fc.nkw = 3 /\ fc.limit = 3
    /\ fc.failed = {2}
    /\ fc.result.data = Entries(1, 0, 1) \o Entries(3, 0, 1)

\* The keys of the metadata of a successful search result: total, keywords,
\* platform and (session adapters) saved_path.
SearchMetadataKeys == {"total", "keywords", "platform", "saved_path"}

\* The result says that something went wrong: an error message, or an
\* entry of metadata beyond the ones every successful search has.
ErrorSurfaced(result) ==
    \/ result.error # "none"
    \/ (DOMAIN result.metadata) \ SearchMetadataKeys # {}

\* A search has returned, after at least one keyword's request raised and
\* at least one other keyword was searched without an exception.
PartlyFailed ==
    /\ fc.pc = "done"
    /\ fc.op = "search"
    /\ fc.client_called
    /\ fc.failed # {}
    /\ (1..fc.nkw) \ fc.failed # {}

\* C23 (as the specification states it): when a keyword's search failed with
\* an exception and another keyword succeeded, the ToolResult has
\* success=true, carries the other keywords' results, and holds the
\* keyword's error in its metadata or its error.
C23_KeywordErrorSurfaced ==
    PartlyFailed
    => /\ fc.result.kind = "ToolResult"
       /\ fc.result.success
       /\ fc.result.data = Prefix(fc.results, fc.limit)
       /\ ErrorSurfaced(fc.result)

\* C24 (as the specification states it): the loop of a keyword keeps
\* len(keyword_results) <= limit_per_keyword and terminates, whatever the
\* client answers: a search that is paging through a keyword returns.
C24_LoopBoundedAndTerminates ==
    /\ [](fc.pc = "page" => Len(fc.keyword_results) <= PerKeyword(fc))
    /\ (fc.pc = "page") ~> (fc.pc = "done")

\* C25 (as the specification states it): every operation of every adapter
\* returns a ToolResult, and any exception raised while it ran (by the
\* session, the client, the identifier parsing) makes it
\* ToolResult(success=false, error=message) with the platform in metadata.
C25_AnyExceptionFails ==
    fc.pc = "done"
    => /\ fc.result.kind = "ToolResult"
       /\ (fc.exc # "none" \/ fc.failed # {})
          => /\ ~fc.result.success
             /\ fc.result.error # "none"
             /\ fc.result.metadata.platform = fc.adapter

\* C25 (amended): every operation of every adapter returns a ToolResult; an
\* exception that reaches the outermost handler makes it
\* ToolResult(success=false, error=message), and every unsuccessful result
\* has an error message and the platform in its metadata. (An exception of
\* a search request is handled inside the keyword's loop and does not
\* reach that handler.)
C25_ToolResultAlways ==
    fc.pc = "done"
    => /\ fc.result.kind = "ToolResult"
       /\ fc.exc # "none"
          => /\ ~fc.result.success
             /\ fc.result.error = fc.exc
             /\ fc.result.metadata = [platform |-> fc.adapter]
       /\ ~fc.result.success
          => /\ fc.result.error # "none"
             /\ fc.result.metadata.platform = fc.adapter

\* A detail operation whose client request raised has returned.
C25_Witness ==
    /\ fc.pc = "done"
    /\ fc.op = "detail"
    /\ fc.client_called
    /\ fc.exc = "client request failed"
    /\ fc.result = Failure(fc, "client request failed")

\* The operations that work on an account's data: detail, comments, profile.
AuthOps == {"detail", "comments", "profile"}

\* C26 (as the specification states it): an operation that requires
\* authentication and has acquired a session with is_logged_in=false fails
\* at once with a ToolResult(success=false) and sends the client nothing.
C26_UnauthenticatedFailsFast ==
    (/\ fc.adapter \in SessionAdapters
     /\ fc.op \in AuthOps
     /\ fc.pc \notin {"idle", "session"}
     /\ ~fc.logged_in)
    => /\ fc.pc = "done"
       /\ ~fc.result.success
       /\ ~fc.client_called

\* The cookie file of the platform holds a cookie.
StoredCookie(platform) ==
    load_cookies_from_file(files[CookieFileName(platform)]) # <<>>

\* A headless search is past _get_session while no cookie is stored.
HeadlessNoCookie ==
    /\ fc.op = "search"
    /\ fc.headless
    /\ fc.pc \notin {"idle", "session"}
    /\ ~StoredCookie(fc.adapter)

\* C27 (as the specification states it): a headless search with no stored
\* cookie starts no interactive login, sends no search request and ends in
\* an authentication-required failure.
C27_HeadlessNoCookieFails ==
    /\ (fc.pc = "session" /\ fc.headless) => pc["t1"] # "cs_login"
    /\ HeadlessNoCookie
       => /\ fc.pc = "done"
          /\ ~fc.result.success
          /\ ~fc.client_called

\* C27 (amended): a headless search starts no interactive login; with no
\* stored cookie and a session that is not logged in, it sends no search
\* request and ends in the "No cookies found" failure (or in the failure of
\* the session acquisition).
C27_HeadlessUnauthenticatedFails ==
    /\ (fc.pc = "session" /\ fc.headless) => pc["t1"] # "cs_login"
    /\ (HeadlessNoCookie /\ ~fc.logged_in)
       => /\ fc.pc = "done"
          /\ ~fc.result.success
          /\ ~fc.client_called
          /\ fc.exc = "none" => fc.result = Failure(fc, NoCookiesError)

\* The session manager launched a browser for a headless search, and the
\* search has ended in the "No cookies found" failure.
C27_Witness ==
    /\ HeadlessNoCookie
    /\ fc.pc = "done"
    /\ fc.result = Failure(fc, NoCookiesError)
    /\ objs # <<>>
    /\ sessions # <<>>

\* C28 (as the specification states it): save_json is called only when the
\* caller asked for it, and when it fails the search still returns
\* success=true with the data collected.
C28_SaveIsBestEffort ==
    (fc.pc = "done" /\ fc.op = "search")
    => /\ fc.save_calls > 0 => fc.save_results
       /\ fc.exc = "save_json failed"
          => /\ fc.result.success
             /\ fc.result.data = Prefix(fc.results, fc.limit)

\* C29: the poll loop checks the signals at most max_wait // 2 = 300 times,
\* with one sleep after each check that found no login; when the loop runs
\* out the context is closed next and the call returns, and without a
\* detected login no cookie file is ever written.
C29_PollLoopBounded ==
    /\ poll.checks <= max_wait \div poll_interval
    /\ poll.sleeps <= poll.checks
    /\ poll.checks <= poll.sleeps + 1
    /\ poll.pc \in {"cookies", "closing"} => poll.sleeps = poll.checks
    /\ poll.pc = "closing"
       => /\ poll.checks = max_wait \div poll_interval
          /\ ~poll.logged_in
    /\ ~poll.logged_in
       => /\ ~poll.file_written
          /\ files[CookieFileName("douyin")] \in InitFiles
          /\ poll.pc = "done"
             => /\ poll.context_closed
                /\ poll.checks = max_wait \div poll_interval

\* The loop ran out after 300 checks and the call returned without login.
C29_Witness ==
    /\ poll.pc = "done"
    /\ ~poll.logged_in
    /\ poll.checks = 300
    /\ poll.sleeps = 300
    /\ poll.context_closed

\* C30: every iteration that has read the cookies goes on to evaluate the
\* local storage, whatever the cookie signal is; the login is confirmed in
\* the iteration in which one of the signals fires, and in no other; an
\* exception of the evaluation counts as the local-storage signal not
\* firing and leaves the loop running.
C30_EitherSignalConfirms ==
    [][/\ (poll.pc = "cookies" /\ poll'.pc # "cookies")
          => poll'.pc \in {"evaluate", "raised"}
       /\ (poll.pc = "evaluate" /\ poll'.pc # "evaluate")
          => /\ poll'.is_login_local = (poll'.evaluated = "1")
             /\ poll'.logged_in = (poll.is_login_cookie \/ poll'.is_login_local)
             /\ poll'.pc = IF poll'.logged_in THEN "backup" ELSE "sleep"
             /\ poll'.checks = poll.checks + 1
       /\ poll'.logged_in # poll.logged_in => poll.pc = "evaluate"]_vars

\* The evaluation raised while the cookie signal had not fired, and the
\* loop is at its sleep.
C30_Witness ==
    /\ poll.pc = "sleep"
    /\ poll.evaluated = "raise"
    /\ ~poll.is_login_cookie
    /\ ~poll.logged_in

\* The lines of a cookie file, as save_cookie and the loader read them.
LinesOf(file) == IF ~file.exists THEN <<>> ELSE SplitLines(file.text)

\* This step is a save_cookie call that returned true.
SavesCookie == out'.op = "save_cookie" /\ out'.n = out.n + 1 /\ out'.ok

\* What C31 says of a successful save_cookie that took the file from the
\* lines before to the lines after: an overwrite changes no line but the
\* one of record i and leaves the number of records; an append keeps every
\* line and adds one record, which is the last line.
OnlyItsRecord(before, after, i) ==
    LET recs == CookieLineIndices(before, 1)
    IN  IF i < Len(recs)
        THEN /\ Len(after) = Len(before)
             /\ \A k \in 1..Len(before) :
                   k # recs[i + 1] => after[k] = before[k]
             /\ Len(CookieLinesOf(after)) = Len(recs)
        ELSE /\ Len(after) > Len(before)
             /\ SubSeq(after, 1, Len(before)) = before
             /\ Len(CookieLinesOf(after)) = Len(recs) + 1
             /\ IsCookieLine(after[Len(after)])

\* C31 (as the specification states it): a successful save_cookie(P, s, i)
\* that overwrites changes only the line of record i, every other line
\* keeping its content and position and the number of records staying; one
\* that appends keeps all the lines there were and adds exactly one record
\* at the end.
C31_SaveTouchesOnlyItsRecord ==
    [][SavesCookie
       => OnlyItsRecord(LinesOf(files[CookieFileName(out'.platform)]),
                        LinesOf(files'[CookieFileName(out'.platform)]),
                        out'.account_index)]_vars

\* The entries of s stand keyword after keyword in the order of the keyword
\* list, and those of one keyword in the order they arrived in, none left
\* out between two of them.
ArrivalOrder(s) ==
    \A i \in 1..Len(s) :
       /\ s[i].n = Count(SubSeq(s, 1, i), s[i].keyword)
       /\ i > 1 => s[i - 1].keyword <= s[i].keyword

\* C32: at every moment of a search, what has been collected (results, then
\* the current keyword's keyword_results) is the concatenation, in
\* keyword-list order, of each keyword's entries in arrival order; the data
\* of a successful search is that list cut to its first limit entries.
C32_ResultsKeepOrder ==
    /\ ArrivalOrder(fc.results \o fc.keyword_results)
    /\ SearchSucceeded => fc.result.data = Prefix(fc.results, fc.limit)

\* An xhs search for two keywords returned one entry of each, the first
\* keyword's before the second's, the second's from its second page.
C32_Witness ==
    /\ SearchSucceeded
    /\ fc.adapter = "xhs"
    /\ fc.page = 2
    /\ fc.result.data = Entries(1, 0, 1) \o Entries(2, 0, 1)


\* This state is a list-returning operation (search or comments) that has
\* returned success.
ListReturned ==
    /\ fc.pc = "done"
    /\ fc.op \in {"search", "comments"}
    /\ fc.result.kind = "ToolResult"
    /\ fc.result.success

\* C33 (as the specification states it): the data of a successful search
\* or comments operation has at most limit items, its metadata holds the
\* platform and total, the number of items in data, and that of a search
\* holds the keyword list.
C33_TotalCountsData ==
    ListReturned
    => /\ Len(fc.result.data) <= fc.limit
       /\ {"platform", "total"} \subseteq DOMAIN fc.result.metadata
       /\ fc.result.metadata.platform = fc.adapter
       /\ fc.op = "search"
          => /\ "keywords" \in DOMAIN fc.result.metadata
             /\ fc.result.metadata.keywords = fc.nkw
       /\ fc.result.metadata.total = Len(fc.result.data)

\* This step is the return of task t's close_all, and no get_session was
\* running when it began, none is running now, and none has launched a
\* browser in between.
CloseAllReturnsAlone(t) ==
    /\ call[t].op = "close_all"
    /\ pc'[t] = "idle"
    /\ ~call[t].busy0
    /\ Len(objs') = call[t].launched0
    /\ \A u \in Tasks : call[u].op # "get_session"

\* C34: when close_all returns and no get_session overlapped it, no session
\* is retained for any platform, and for every session that was retained
\* when it began browser.close() and playwright.stop() have been awaited
\* exactly once, whether by close_all or by a close_session running beside
\* it.
C34_CloseAllClosesEverything ==
    [][\A t \in Tasks :
          CloseAllReturnsAlone(t)
          => /\ sessions' = <<>>
             /\ \A p \in Platforms : ~HasSession(sessions', p)
             /\ \A id \in call[t].retained0 :
                   /\ objs'[id].closeCalls = 1
                   /\ objs'[id].stopCalls = 1]_vars

\* close_all, called with the sessions of two platforms retained, has closed
\* the first and is at playwright.stop() of the second, the last.
C34_Witness ==
    \E t \in Tasks :
       /\ call[t].op = "close_all"
       /\ ~call[t].busy0
       /\ Cardinality(call[t].retained0) = 2
       /\ pc[t] = "cu_stop"
       /\ Len(local[t].todo) = 1
       /\ Len(sessions) = 1
       /\ \A u \in Tasks : call[u].op # "get_session"

\* C35 (as the specification states it): every browser launched is the one
\* of the session retained for its platform, or belongs to a get_session
\* that is still creating its session, or has been closed (browser.close()
\* and playwright.stop() awaited); so when get_session raises after it
\* launched a browser, that browser has been closed.
C35_NoBrowserOutlivesItsSession ==
    \A id \in 1..Len(objs) :
       \/ SessionOf(sessions, objs[id].platform) = id
       \/ \E t \in Tasks : call[t].op = "get_session" /\ local[t].sid = id
       \/ objs[id].closeCalls > 0 /\ objs[id].stopCalls > 0

\* C36 (as the specification states it): when a get_session saves the
\* refreshed cookies into a file holding several account records, the
\* records of all accounts but the one get_cookie selected for the session
\* are as they were.
C36_RefreshGoesToSelectedAccount ==
    [][\A t \in Tasks :
          LET before == load_cookies_from_file(files[CookieFileName(local[t].cur)])
              after == load_cookies_from_file(files'[CookieFileName(local[t].cur)])
          IN  (/\ call[t].op = "get_session"
               /\ pc[t] \in {"cs_pong", "cs_login"}
               /\ after # before
               /\ Len(before) > 1)
              => /\ Len(after) = Len(before)
                 /\ \A k \in 1..Len(before) :
                       k # local[t].acct + 1 => after[k] = before[k]]_vars


\* The names that share the cookie file of a platform name.
Aliases(platform) ==
    {q \in CookieNames : CookieFileName(q) = CookieFileName(platform)}

\* C37: after a save_cookie that returns True under one name,
\* get_all_cookies under every name that maps to the same cookie file
\* returns the records the saved file holds, whatever was cached before.
C37_AliasesSeeSavedRecords ==
    [][SavesOk
          => \A q \in Aliases(out'.platform) :
                AllCookies(files', cache', q)
                   = load_cookies_from_file(files'[CookieFileName(q)])]_vars


\* Some task is inside the critical section of the platform.
ActiveCS(platform) == \E t \in Tasks : InCS(t) /\ local[t].cur = platform

\* The manager has awaited browser.close() on the session retained for the
\* platform.
RetainedClosed(platform) ==
    /\ HasSession(sessions, platform)
    /\ objs[SessionOf(sessions, platform)].closeCalls > 0

\* While no critical section of a platform is active, the session retained
\* for it has not been closed by the manager.
QuiescentSessionIsOpen ==
    \A p \in Platforms : ~ActiveCS(p) => ~RetainedClosed(p)

\* C38: under any interleaving of get_session, close_session and close_all,
\* while no critical section of a platform is active the session retained
\* for it has not been closed by the manager, and has_session(P) is never
\* true of a session whose browser the manager has already closed.
C38_NoClosedSessionVisible ==
    /\ QuiescentSessionIsOpen
    /\ \A p \in Platforms : HasSession(sessions, p) => ~RetainedClosed(p)

\* This step is cleanup() of the xhs adapter while the session manager
\* retains the session the adapter obtained from it.
CleansUpWithSession ==
    /\ ~fc.cleaned /\ fc'.cleaned
    /\ HasSession(sessions, "xhs")

\* C39: after cleanup() of an adapter that obtained its session through the
\* shared session manager, the platform's session is closed and no longer
\* retained (has_session(platform) is false).
C39_CleanupClosesSession ==
    [][CleansUpWithSession
          => /\ ~HasSession(sessions', "xhs")
             /\ objs'[SessionOf(sessions, "xhs")].closeCalls > 0]_vars

====
